---- MODULE Spec2Model ----
(***************************************************************************)
(* Model of the conversation memory store of the farmer-assistant backend  *)
(* (backend/services/vector_store_service.py): a FAISS IndexFlatL2 kept in *)
(* lockstep with a list of metadata records, persisted as two files.       *)
(*                                                                         *)
(* Conventions.  Python lists are sequences; a 0-based Python position p   *)
(* is element p + 1 of the sequence.  An embedding is one integer (a       *)
(* point on a line) and the L2 distance of the index is the squared        *)
(* difference, as IndexFlatL2 reports squared distances.  The similarity   *)
(* score 1 / (1 + d) is the exact fraction [num |-> 1, den |-> 1 + d].     *)
(***************************************************************************)
EXTENDS Integers, Sequences, FiniteSets, TLC

(* ------------------------------ bounds --------------------------------- *)

\* Largest number of records the in-memory store holds in the model.
MaxRecords == 3

\* Largest k passed to search_similar_conversations in the model.
MaxK == 2

\* Largest reading of the clock (datetime.utcnow) in the model: the clock
\* reads one more at every add_conversation until it stands at MaxClock.
MaxClock == 2

\* Largest number of failed writes and crashes in one behaviour.
MaxFaults == 1

(* ------------------------------ inputs --------------------------------- *)

\* user_email = None (no owner filter) in search_similar_conversations.
None == "None"

\* conversation_id = None, the default of add_conversation.
NoId == 0

Users == {"a@farm", "b@farm"}

Questions == {"water", "rice"}

Responses == {"ok"}

ConversationIds == {NoId}

Queries == {"water?", "soil?"}

\* The send_message requests that can be in flight at the same time.
TurnIds == {1, 2}

Ks == 1..MaxK

\* limit of get_user_history_summary when the caller passes none.
DefaultLimit == 10

\* limit of the call made by scripts/test_rag_system.py.
ScriptLimit == 5

\* The values of `limit` passed to get_user_history_summary: any int is
\* accepted, a negative one and 0 included; the default and the limit of the
\* script are larger than the number of records the store holds.
Limits == ((-1)..MaxK) \cup {ScriptLimit, DefaultLimit}

Min(a, b) == IF a <= b THEN a ELSE b

(* ------------------------- embedding provider -------------------------- *)

\* combined_text = f"Question: {question}\nAnswer: {response}"
CombinedText(question, response) ==
    "Question: " \o question \o "\nAnswer: " \o response

\* SentenceTransformer.encode on one text: deterministic for a fixed model.
\* The table places the two stored texts at 2 and 8, one query next to the
\* first and one query half way between them (a tie of distances); a chat
\* message, used as the query of its own turn, lies next to the exchange
\* stored for it.
Encode(text) ==
    CASE text = CombinedText("water", "ok") -> 2
      [] text = CombinedText("rice", "ok")  -> 8
      [] text = "water?"                    -> 1
      [] text = "soil?"                     -> 5
      [] text = "water"                     -> 3
      [] text = "rice"                      -> 9
      [] OTHER                              -> 0

\* create_embeddings(texts): one vector per text, in order.
create_embeddings(texts) == [i \in DOMAIN texts |-> Encode(texts[i])]

(* --------------------------- similarity index -------------------------- *)

\* faiss.IndexFlatL2(vector_dim): an empty index.
IndexFlatL2 == << >>

\* index.ntotal
ntotal(idx) == Len(idx)

\* index.add(np.array([embedding])): the vector takes slot ntotal.
IndexAdd(idx, vector) == Append(idx, vector)

\* index.reconstruct(i): the stored vector of slot i, unchanged.
IndexReconstruct(idx, i) == idx[i + 1]

\* Squared L2 distance of IndexFlatL2.
L2(x, y) == (x - y) * (x - y)

\* (distance, slot) of slot i for query vector qv.
Hit(idx, qv, i) == [distance |-> L2(idx[i + 1], qv), idx |-> i]

\* Hit h comes before hit g: ascending distance, ties by slot.
HitBefore(h, g) ==
    \/ h.distance < g.distance
    \/ h.distance = g.distance /\ h.idx < g.idx

\* index.search(query, n) for 1 <= n <= ntotal: the n nearest slots in
\* ascending distance.  Element r is the hit that exactly r - 1 hits precede.
IndexSearch(idx, qv, n) ==
    LET all == {Hit(idx, qv, i) : i \in 0..(Len(idx) - 1)}
        rank(h) == Cardinality({g \in all : HitBefore(g, h)})
    IN  [r \in 1..n |-> CHOOSE h \in all : rank(h) = r - 1]

(* --------------------------- pure operations --------------------------- *)

\* The metadata dict built by add_conversation.
Metadata(user_email, question, response, conversation_id, timestamp, index_id) ==
    [user_email      |-> user_email,
     question        |-> question,
     response        |-> response,
     conversation_id |-> conversation_id,
     timestamp       |-> timestamp,
     index_id        |-> index_id]

\* float(1 / (1 + distance)), kept as an exact fraction.
SimilarityScore(distance) == [num |-> 1, den |-> 1 + distance]

\* meta = self.metadata[idx].copy(); meta["similarity_score"] = ...
Scored(meta, distance) ==
    [user_email       |-> meta.user_email,
     question         |-> meta.question,
     response         |-> meta.response,
     conversation_id  |-> meta.conversation_id,
     timestamp        |-> meta.timestamp,
     index_id         |-> meta.index_id,
     similarity_score |-> SimilarityScore(distance)]

(* --------------------------- float32 arithmetic ------------------------ *)
(* index.search returns float32 distances.  With NumPy 2 and later the    *)
(* sum `1 + distance` of a Python int and a float32 scalar is a float32    *)
(* scalar, so the sum and the quotient are each rounded to the nearest     *)
(* float32 number (ties to the even mantissa).                             *)
(* The numbers met here are normal: no overflow and no subnormal result.   *)
(* On the small integer distances of the embedding table the fraction kept *)
(* by SimilarityScore names the rounded quotient without ambiguity.        *)

\* 2^23 and 2^24: a float32 number (the dtype of the distances that
\* index.search returns and of the arithmetic made on them) has a mantissa of
\* 24 bits.
Two23 == 8388608

Two24 == 16777216

\* The powers of 2 from 2^0 to 2^30.
PowersOf2 ==
    <<1, 2, 4, 8, 16, 32, 64, 128, 256, 512, 1024, 2048, 4096, 8192, 16384,
      32768, 65536, 131072, 262144, 524288, 1048576, 2097152, 4194304,
      8388608, 16777216, 33554432, 67108864, 134217728, 268435456, 536870912,
      1073741824>>

\* 2^k for 0 <= k <= 30.
Pow2(k) == PowersOf2[k + 1]

\* A non-negative float32 number: 0, or m * 2^e with 2^23 <= m < 2^24.
Float32(m, e) == [m |-> m, e |-> e]

Float32Zero == Float32(0, 0)

Float32One == Float32(Two23, -23)

\* a < b for two non-negative float32 numbers.
Float32Less(a, b) ==
    IF a.m = 0 \/ b.m = 0
    THEN a.m = 0 /\ b.m # 0
    ELSE a.e < b.e \/ (a.e = b.e /\ a.m < b.m)

\* Where rem / 2^k lies in [0, 1): 0 at zero, 1 below one half, 2 at one
\* half, 3 above.
HalfCompare(rem, whole) ==
    IF rem = 0 THEN 0
    ELSE IF 2 * rem < whole THEN 1
    ELSE IF 2 * rem = whole THEN 2
    ELSE 3

\* The float32 number nearest to (S + f) * 2^e, ties going to the even
\* mantissa, for 2^23 <= S < 2^25 and a fraction f given by its HalfCompare.
RECURSIVE RoundToNearestEven(_, _, _)
RoundToNearestEven(S, e, frac) ==
    IF S >= Two24
    THEN RoundToNearestEven(S \div 2, e + 1,
                            IF S % 2 = 0
                            THEN (IF frac = 0 THEN 0 ELSE 1)
                            ELSE (IF frac = 0 THEN 2 ELSE 3))
    ELSE LET m1 == IF frac = 3 \/ (frac = 2 /\ S % 2 = 1) THEN S + 1 ELSE S
         IN  IF m1 = Two24 THEN Float32(Two23, e + 1) ELSE Float32(m1, e)

\* 1 + distance in float32.
OnePlusFloat32(d) ==
    IF d.m = 0
    THEN Float32One
    ELSE LET k == -23 - d.e
         IN  IF k >= 26
             THEN Float32One
             ELSE IF k >= 0
             THEN RoundToNearestEven(Two23 + (d.m \div Pow2(k)), -23,
                                     HalfCompare(d.m % Pow2(k), Pow2(k)))
             ELSE IF -k >= 25
             THEN d
             ELSE RoundToNearestEven(d.m + (Two23 \div Pow2(-k)), d.e,
                                     HalfCompare(Two23 % Pow2(-k), Pow2(-k)))

\* floor(2^n / m) and the remainder for 2^23 < m < 2^24, by long division,
\* six binary places at a time from 2^23 (n = 23, 29, 35, 41, 47).
RECURSIVE LongDivide(_, _)
LongDivide(m, n) ==
    IF n = 23
    THEN [q |-> 0, r |-> Two23]
    ELSE LET p == LongDivide(m, n - 6)
         IN  [q |-> 64 * p.q + ((64 * p.r) \div m), r |-> (64 * p.r) % m]

\* 1 / x in float32, for x >= 1.
ReciprocalFloat32(x) ==
    IF x.m = Two23
    THEN Float32(Two23, -46 - x.e)
    ELSE LET d == LongDivide(x.m, 47)
         IN  RoundToNearestEven(d.q, -47 - x.e, HalfCompare(d.r, x.m))

\* Mutant of SimilarityScoreFloat32: the division is left out.
SimilarityScoreFloat32NoDivision(distance) == OnePlusFloat32(distance)

\* float(1 / (1 + distance)) for a float32 distance: the division and the sum
\* are made in float32, the conversion to float is exact.
SimilarityScoreFloat32(distance) == ReciprocalFloat32(OnePlusFloat32(distance))

(* --------------------------- float64 arithmetic ------------------------ *)
(* With NumPy 1.x the sum `1 + distance` of a Python int and a float32     *)
(* scalar is a float64 scalar, so the sum and the quotient are each        *)
(* rounded to the nearest float64 number; with NumPy 2 and later both stay *)
(* float32.  The repository pins no version of NumPy.  float(...) then     *)
(* gives a Python float, a float64 number, without rounding.               *)

\* The arithmetic of `1 / (1 + distance)`, by the NumPy of the build.
Arithmetics == {"float32", "float64"}

\* 2^26 and 2^27: the 53 bits of the mantissa of a float64 number are kept as
\* 27 high bits and 26 low bits.
Two26 == 67108864

Two27 == 134217728

\* 2^20: the width of the parts in which a mantissa is multiplied by 100.
Two20 == 1048576

\* A positive float64 number: (hi * 2^26 + lo) * 2^e with 2^26 <= hi < 2^27
\* and 0 <= lo < 2^26.
Float64(hi, lo, e) == [hi |-> hi, lo |-> lo, e |-> e]

Float64One == Float64(Two26, 0, -52)

\* a < b for two positive float64 numbers.
Float64Less(a, b) ==
    \/ a.e < b.e
    \/ a.e = b.e /\ a.hi < b.hi
    \/ a.e = b.e /\ a.hi = b.hi /\ a.lo < b.lo

\* The float64 number of a positive float32 number: exact.
Widen(x) == Float64(8 * x.m, 0, x.e - 29)

\* 1 + distance in float64, for a float32 distance.
OnePlusFloat64(d) ==
    IF d.m = 0
    THEN Float64One
    ELSE IF d.e >= 30
    THEN Widen(d)
    ELSE IF d.e >= 4
    THEN Float64(8 * d.m, Pow2(29 - d.e), d.e - 29)
    ELSE IF d.e >= 0
    THEN IF 8 * d.m + Pow2(3 - d.e) = Two27
         THEN Float64(Two26, 0, d.e - 28)
         ELSE Float64(8 * d.m + Pow2(3 - d.e), 0, d.e - 29)
    ELSE IF d.e >= -23
    THEN LET N == d.m + Pow2(-d.e)
         IN  IF N < Two24
             THEN Float64(8 * N, 0, d.e - 29)
             ELSE Float64(4 * N, 0, d.e - 28)
    ELSE IF d.e >= -26
    THEN Float64(Two26 + d.m * Pow2(d.e + 26), 0, -52)
    ELSE IF d.e >= -52
    THEN Float64(Two26 + (d.m \div Pow2(-26 - d.e)),
                 (d.m % Pow2(-26 - d.e)) * Pow2(d.e + 52), -52)
    ELSE IF d.e <= -77
    THEN Float64One
    ELSE LET t    == Pow2(-52 - d.e)
             q    == d.m \div t
             frac == HalfCompare(d.m % t, t)
         IN  Float64(Two26,
                     IF frac = 3 \/ (frac = 2 /\ q % 2 = 1) THEN q + 1 ELSE q,
                     -52)

\* floor(2^52 * 16^n / X) and the remainder for a mantissa X = xh * 2^26 + xl
\* with 2^52 < X < 2^53, by long division, one hexadecimal digit at a time.
\* The quotient is kept as its first seven digits qh and the others ql, the
\* remainder as rh * 2^26 + rl.  The digit is estimated from the high parts
\* and is at most one too large.
RECURSIVE LongDivide64(_, _, _)
LongDivide64(xh, xl, n) ==
    IF n = 0
    THEN [qh |-> 0, ql |-> 0, rh |-> Two26, rl |-> 0]
    ELSE LET p     == LongDivide64(xh, xl, n - 1)
             Rh    == 16 * p.rh + ((16 * p.rl) \div Two26)
             Rl    == (16 * p.rl) % Two26
             est   == Min(15, Rh \div xh)
             Pl    == (est * xl) % Two26
             Ph    == est * xh + ((est * xl) \div Two26)
             low   == IF Rl >= Pl THEN Rl - Pl ELSE Rl - Pl + Two26
             high  == IF Rl >= Pl THEN Rh - Ph ELSE Rh - Ph - 1
             digit == IF high >= 0 THEN est ELSE est - 1
             rl    == IF high >= 0 THEN low ELSE (low + xl) % Two26
             rh    == IF high >= 0
                      THEN high
                      ELSE high + xh + ((low + xl) \div Two26)
         IN  [qh |-> IF n <= 7 THEN 16 * p.qh + digit ELSE p.qh,
              ql |-> IF n <= 7 THEN 0 ELSE 16 * p.ql + digit,
              rh |-> rh, rl |-> rl]

\* 1 / x in float64, for x >= 1: the quotient of 56 bits is rounded to 53
\* bits, ties going to the even mantissa.
ReciprocalFloat64(x) ==
    IF x.hi = Two26 /\ x.lo = 0
    THEN Float64(Two26, 0, -104 - x.e)
    ELSE LET d    == LongDivide64(x.hi, x.lo, 14)
             hi   == d.qh \div 2
             lo   == (d.qh % 2) * (Two26 \div 2) + (d.ql \div 8)
             low3 == d.ql % 8
             up   == \/ low3 > 4
                     \/ low3 = 4 /\ (d.rh # 0 \/ d.rl # 0)
                     \/ low3 = 4 /\ d.rh = 0 /\ d.rl = 0 /\ lo % 2 = 1
             lo1  == IF up THEN (lo + 1) % Two26 ELSE lo
             hi1  == IF up /\ lo + 1 = Two26 THEN hi + 1 ELSE hi
         IN  IF hi1 = Two27
             THEN Float64(Two26, 0, -104 - x.e)
             ELSE Float64(hi1, lo1, -105 - x.e)

\* float(1 / (1 + distance)) for a float32 distance, with the sum and the
\* division made in float64.
SimilarityScoreFloat64(distance) == ReciprocalFloat64(OnePlusFloat64(distance))

\* float(1 / (1 + distance)) for a float32 distance, as a Python float, in
\* the arithmetic of the build.
SimilarityScoreFloat(arith, distance) ==
    IF arith = "float32"
    THEN Widen(SimilarityScoreFloat32(distance))
    ELSE SimilarityScoreFloat64(distance)

\* Mutant of Survives: the owner filter is dropped.
SurvivesAnyOwner(metas, hit, user_email) == hit.idx < Len(metas)

\* The candidates of the search loop that pass both tests of its body:
\* idx < len(self.metadata), and the owner filter.
Survives(metas, hit, user_email) ==
    /\ hit.idx < Len(metas)
    /\ \/ user_email = None
       \/ metas[hit.idx + 1].user_email = user_email

\* The first k elements of a sequence (the loop breaks at len(results) >= k).
FirstK(seq, k) == SubSeq(seq, 1, Min(k, Len(seq)))

\* Mutant of FetchCount: no over-fetch, k candidates only.
FetchCountK(k, n) == Min(k, n)

\* min(k * 2, self.index.ntotal): the number of candidates fetched.
FetchCount(k, n) == Min(k * 2, n)

\* search_similar_conversations(query, user_email, k) on a store (idx, metas).
SearchSimilarConversations(idx, metas, query, user_email, k) ==
    IF ntotal(idx) = 0
    THEN << >>
    ELSE LET query_embedding == create_embeddings(<<query>>)[1]
             hits == IndexSearch(idx, query_embedding, FetchCount(k, ntotal(idx)))
             kept == SelectSeq(hits, LAMBDA h : Survives(metas, h, user_email))
         IN  FirstK([i \in DOMAIN kept |->
                        Scored(metas[kept[i].idx + 1], kept[i].distance)], k)

\* s[:n]
Truncate(s, n) == IF Len(s) <= n THEN s ELSE SubSeq(s, 1, n)

\* The float32 number of m * 2^e for an integer 1 <= m < 2^24: exact.
Normalized(m, e) ==
    LET s1 == IF m < 256 THEN 16 ELSE 0
        m1 == m * Pow2(s1)
        s2 == IF m1 < 65536 THEN 8 ELSE 0
        m2 == m1 * Pow2(s2)
        s3 == IF m2 < 1048576 THEN 4 ELSE 0
        m3 == m2 * Pow2(s3)
        s4 == IF m3 < 4194304 THEN 2 ELSE 0
        m4 == m3 * Pow2(s4)
        s5 == IF m4 < Two23 THEN 1 ELSE 0
    IN  Float32(m4 * Pow2(s5), e - s1 - s2 - s3 - s4 - s5)

\* The number that meta["similarity_score"] holds for a score 1 / den of the
\* model, in the arithmetic of the build: the quotient of 1 and 1 + distance,
\* where the sum of 1 and the whole distance is exact in both arithmetics.
ScoreValue(score, arith) ==
    IF arith = "float32"
    THEN Widen(ReciprocalFloat32(Normalized(score.den, 0)))
    ELSE ReciprocalFloat64(Widen(Normalized(score.den, 0)))

\* A float64 number x <= 1 in hundredths, rounded to the nearest whole number
\* of hundredths; only a number that lies exactly half way goes to the even
\* one.  The mantissa is cut in parts a, b, c of 13, 20 and 20 bits, 100 times
\* the mantissa is p2 * 2^40 + p1 * 2^20 + p0, and x * 100 is that number
\* over 2^(-e).
Hundredths(x) ==
    IF -x.e > 60
    THEN 0
    ELSE LET a    == x.hi \div 16384
             b    == (x.hi % 16384) * 64 + (x.lo \div Two20)
             c    == x.lo % Two20
             p0   == (100 * c) % Two20
             p1   == (100 * b + ((100 * c) \div Two20)) % Two20
             p2   == 100 * a + ((100 * b + ((100 * c) \div Two20)) \div Two20)
             unit == Pow2(-x.e - 40)
             whole == p2 \div unit
             top  == p2 % unit
             frac == IF top = 0 /\ p1 = 0 /\ p0 = 0 THEN 0
                     ELSE IF 2 * top < unit THEN 1
                     ELSE IF 2 * top = unit /\ p1 = 0 /\ p0 = 0 THEN 2
                     ELSE 3
         IN  IF frac = 3 \/ (frac = 2 /\ whole % 2 = 1)
             THEN whole + 1
             ELSE whole

\* f"{score:.2f}": the value of the score rounded to hundredths, written
\* with two decimals.
FormatScore(score, arith) ==
    LET h == Hundredths(ScoreValue(score, arith))
    IN  ToString(h \div 100) \o "." \o ToString((h \div 10) % 10)
            \o ToString(h % 10)

\* Mutant of ContextPart: the entries are numbered from 0.
ContextPartFromZero(i, convo, arith) ==
    "\n" \o ToString(i - 1) \o ". Q: " \o Truncate(convo.question, 100) \o "..."
        \o "\n   A: " \o Truncate(convo.response, 150) \o "..."
        \o "\n   (Similarity: " \o FormatScore(convo.similarity_score, arith) \o ")"

\* One numbered entry of the context block.
ContextPart(i, convo, arith) ==
    "\n" \o ToString(i) \o ". Q: " \o Truncate(convo.question, 100) \o "..."
        \o "\n   A: " \o Truncate(convo.response, 150) \o "..."
        \o "\n   (Similarity: " \o FormatScore(convo.similarity_score, arith) \o ")"

\* "\n".join(parts)
RECURSIVE JoinLines(_)
JoinLines(parts) ==
    IF Len(parts) = 0
    THEN ""
    ELSE IF Len(parts) = 1
         THEN parts[1]
         ELSE parts[1] \o "\n" \o JoinLines(Tail(parts))

\* The text that get_relevant_context makes of the result of its search, in
\* the arithmetic of the build.
ContextOf(similar_convos, arith) ==
    IF Len(similar_convos) = 0
    THEN "No relevant past conversations found."
    ELSE JoinLines(<<"Relevant past conversations:">>
             \o [i \in DOMAIN similar_convos |->
                    ContextPart(i, similar_convos[i], arith)])

\* get_relevant_context(query, user_email, max_results) on a store, in the
\* arithmetic of the build.
GetRelevantContext(idx, metas, query, user_email, max_results, arith) ==
    ContextOf(SearchSimilarConversations(idx, metas, query, user_email,
                                         max_results), arith)

\* datetime.utcnow().isoformat() for a reading t of the clock: midnight of
\* day t (one day per reading); isoformat writes no fraction of a second
\* when the microsecond is 0.
IsoFormat(t) == "2025-01-0" \o ToString(t) \o "T00:00:00"

\* Mutant of SortedByTimestamp: oldest first.
SortedByTimestampAscending(convos) ==
    LET rank(i) ==
            Cardinality({j \in DOMAIN convos :
                            \/ convos[j].timestamp < convos[i].timestamp
                            \/ /\ convos[j].timestamp = convos[i].timestamp
                               /\ j < i})
    IN  [p \in DOMAIN convos |->
            convos[CHOOSE i \in DOMAIN convos : rank(i) = p - 1]]

\* user_convos.sort(key=lambda x: x["timestamp"], reverse=True): most recent
\* first; the sort is stable, equal timestamps keep their order.
SortedByTimestamp(convos) ==
    LET rank(i) ==
            Cardinality({j \in DOMAIN convos :
                            \/ convos[j].timestamp > convos[i].timestamp
                            \/ /\ convos[j].timestamp = convos[i].timestamp
                               /\ j < i})
    IN  [p \in DOMAIN convos |->
            convos[CHOOSE i \in DOMAIN convos : rank(i) = p - 1]]

\* seq[:stop] of Python: the first `stop` elements, all but the last -stop
\* ones for a negative stop.
SliceTo(seq, stop) ==
    LET n == IF stop >= 0
             THEN Min(stop, Len(seq))
             ELSE IF Len(seq) + stop > 0 THEN Len(seq) + stop ELSE 0
    IN  SubSeq(seq, 1, n)

\* One line of the history summary.
SummaryPart(convo) ==
    "- Q: " \o Truncate(convo.question, 80) \o "... "
        \o "(at " \o Truncate(IsoFormat(convo.timestamp), 10) \o ")"

\* get_user_history_summary(user_email, limit) on a metadata list.
GetUserHistorySummary(metas, user_email, limit) ==
    LET user_convos ==
            SelectSeq(metas, LAMBDA meta : meta.user_email = user_email)
        recent_convos == SliceTo(SortedByTimestamp(user_convos), limit)
    IN  IF Len(recent_convos) = 0
        THEN "No previous conversations found."
        ELSE JoinLines(<<"Your recent conversation history ("
                            \o ToString(Len(recent_convos))
                            \o " conversations):">>
                 \o [i \in DOMAIN recent_convos |->
                        SummaryPart(recent_convos[i])])

\* Mutant of IndicesToKeep: the test is inverted, the records of the owner
\* are the ones kept.
RECURSIVE IndicesToKeepOfOwner(_, _, _)
IndicesToKeepOfOwner(metas, user_email, i) ==
    IF i >= Len(metas)
    THEN << >>
    ELSE IF metas[i + 1].user_email = user_email
         THEN <<i>> \o IndicesToKeepOfOwner(metas, user_email, i + 1)
         ELSE IndicesToKeepOfOwner(metas, user_email, i + 1)

\* indices_to_keep of delete_user_conversations: the 0-based positions of the
\* records of other owners, ascending.
RECURSIVE IndicesToKeep(_, _, _)
IndicesToKeep(metas, user_email, i) ==
    IF i >= Len(metas)
    THEN << >>
    ELSE IF metas[i + 1].user_email # user_email
         THEN <<i>> \o IndicesToKeep(metas, user_email, i + 1)
         ELSE IndicesToKeep(metas, user_email, i + 1)

\* Mutant of RebuiltIndex: the vector is read at the new position instead of
\* the old one.
RebuiltIndexByNewPosition(idx, keep) ==
    [j \in DOMAIN keep |-> IndexReconstruct(idx, j - 1)]

\* new_index of delete_user_conversations: the reconstructed vectors of the
\* kept positions, in order.
RebuiltIndex(idx, keep) ==
    [j \in DOMAIN keep |-> IndexReconstruct(idx, keep[j])]

\* Mutant of RebuiltMetadata: the kept records are stamped anew.
RebuiltMetadataRestamped(metas, keep) ==
    [j \in DOMAIN keep |-> [metas[keep[j] + 1] EXCEPT !.timestamp = 0]]

\* Mutant of RebuiltMetadata: the kept records are appended last to first.
RebuiltMetadataReversed(metas, keep) ==
    [j \in DOMAIN keep |-> metas[keep[Len(keep) + 1 - j] + 1]]

\* new_metadata of delete_user_conversations: the kept dicts themselves.
RebuiltMetadata(metas, keep) ==
    [j \in DOMAIN keep |-> metas[keep[j] + 1]]

\* index.reconstruct raises for a position the index does not hold.
ReconstructRaises(idx, keep) ==
    \E j \in DOMAIN keep : keep[j] >= ntotal(idx)

\* get_stats(): total_conversations is the index's count; the per-owner
\* counts come from the metadata list and have no entry for other owners.
GetStats(idx, metas) ==
    LET owners == {metas[i].user_email : i \in DOMAIN metas}
        user_counts ==
            [u \in owners |->
                Cardinality({i \in DOMAIN metas : metas[i].user_email = u})]
    IN  [total_conversations    |-> ntotal(idx),
         total_users            |-> Cardinality(DOMAIN user_counts),
         conversations_per_user |-> user_counts]

(* ------------------------------ persistence ---------------------------- *)

\* A file of the storage directory: absent, unreadable, or holding content.
AbsentFile == [state |-> "absent", content |-> << >>]

CorruptFile == [state |-> "corrupt", content |-> << >>]

\* faiss.write_index: the serialized index is the list of its vectors.
WriteIndex(idx) == [state |-> "ok", content |-> idx]

\* faiss.read_index of a readable file.
ReadIndex(file) == file.content

\* One pickled metadata dict: its values in the dict's key order.
PickleRecord(m) ==
    <<m.user_email, m.question, m.response, m.conversation_id, m.timestamp,
      m.index_id>>

\* The dict read back from its pickled form.
UnpickleRecord(t) == Metadata(t[1], t[2], t[3], t[4], t[5], t[6])

\* pickle.dump(self.metadata, f)
PickleDump(metas) ==
    [state |-> "ok", content |-> [i \in DOMAIN metas |-> PickleRecord(metas[i])]]

\* pickle.load(f) of a readable file.
PickleLoad(file) ==
    [i \in DOMAIN file.content |-> UnpickleRecord(file.content[i])]

\* How a save_index call ends:
\*   "ok"            both files written;
\*   "index_open"    write_index raises before it touches the index file;
\*   "index_partial" write_index stops part way, the index file is unreadable;
\*   "meta_open"     the index file is written, open(metadata_path) raises;
\*   "meta_partial"  the index file is written, pickle.dump stops part way.
SaveOutcomes ==
    {"ok", "index_open", "index_partial", "meta_open", "meta_partial"}

SaveFaults == SaveOutcomes \ {"ok"}

\* The two files after save_index of store (idx, metas) ending in `outcome`,
\* from files (ifile, mfile).  The index file is written first.
SaveIndex(idx, metas, ifile, mfile, outcome) ==
    CASE outcome = "ok" ->
           [index_file |-> WriteIndex(idx), metadata_file |-> PickleDump(metas)]
      [] outcome = "index_open" ->
           [index_file |-> ifile, metadata_file |-> mfile]
      [] outcome = "index_partial" ->
           [index_file |-> CorruptFile, metadata_file |-> mfile]
      [] outcome = "meta_open" ->
           [index_file |-> WriteIndex(idx), metadata_file |-> mfile]
      [] outcome = "meta_partial" ->
           [index_file |-> WriteIndex(idx), metadata_file |-> CorruptFile]

\* The in-memory store after load_index, from store (idx, metas) and the two
\* files: both loaded when both exist; left alone when one is missing; reset
\* to empty when reading either raises.
LoadIndex(idx, metas, ifile, mfile) ==
    IF ifile.state # "absent" /\ mfile.state # "absent"
    THEN IF ifile.state = "ok" /\ mfile.state = "ok"
         THEN [index |-> ReadIndex(ifile), metadata |-> PickleLoad(mfile)]
         ELSE [index |-> IndexFlatL2, metadata |-> << >>]
    ELSE [index |-> idx, metadata |-> metas]

(* -------------------------------- state -------------------------------- *)

VARIABLES
    index,          \* self.index: the vectors of the FAISS index, by slot
    metadata,       \* self.metadata: the list of metadata dicts
    index_file,     \* vector_store_data/faiss_index.bin
    metadata_file,  \* vector_store_data/metadata.pkl
    now,            \* the last reading of datetime.utcnow()
    ret,            \* the last call made on the service and what it returned
                    \* (the retrieval a chat turn makes is kept in the
                    \* turn), or the response of delete_conversation
    removed,        \* history: some delete_user_conversations removed a record
    adds,           \* history: the add_conversation calls that have returned,
                    \* counted until a record is removed (0 from then on)
    faults,         \* history: the failed writes and crashes so far
    turns,          \* the send_message requests in flight, by request slot:
                    \* where each one stands and what it holds
    conversations,  \* the rows of the SQL table "conversations"
    reply,          \* the last response send_message gave, and the turn it
                    \* ended
    running,        \* the request whose coroutine holds the event loop's
                    \* thread, 0 when the loop is free
    frames          \* statement by statement: the handler each request runs,
                    \* the statement it executes next, and its local variables
                    \* (the migration script runs in the first frame)

vars == <<index, metadata, index_file, metadata_file, now, ret, removed, adds,
          faults, turns, conversations, reply, running, frames>>

\* The variables of the request handlers.
chat_vars == <<turns, conversations, reply, running, frames>>

\* A request slot with no send_message running in it.
IdleTurn ==
    [pc |-> "idle", user_email |-> None, question |-> "", rag_context |-> "",
     prompt_context |-> ""]

\* A request slot with no handler running in it.
IdleFrame == [pc |-> "idle"]

\* No response given yet.
NoReply == [status |-> 0, failed_at |-> "", response |-> "", vector_id |-> -1]

\* The store a new process builds: __init__ creates an empty index and an
\* empty list, then calls load_index.
Constructed(ifile, mfile) == LoadIndex(IndexFlatL2, << >>, ifile, mfile)

\* The service constructed in an empty storage directory.
Init ==
    /\ index_file = AbsentFile
    /\ metadata_file = AbsentFile
    /\ index = Constructed(AbsentFile, AbsentFile).index
    /\ metadata = Constructed(AbsentFile, AbsentFile).metadata
    /\ now = 0
    /\ ret = [op |-> "__init__"]
    /\ removed = FALSE
    /\ adds = 0
    /\ faults = 0
    /\ turns = [t \in TurnIds |-> IdleTurn]
    /\ conversations = << >>
    /\ reply = NoReply
    /\ running = 0
    /\ frames = [r \in TurnIds |-> IdleFrame]

(* ------------------------------- actions ------------------------------- *)

\* One more fault when the call's save does not end "ok".
Faulty(outcome) ==
    IF outcome = "ok"
    THEN faults' = faults
    ELSE faults < MaxFaults /\ faults' = faults + 1

\* Mutant of AddResult: the count after the append is returned.
AddResultCount(metas) == Len(metas)

\* Mutant of AddResult: position 0 is returned whatever the list holds.
AddResultFirst(metas) == 0

\* The value add_conversation returns, from the list after the append.
AddResult(metas) == Len(metas) - 1

\* The index_id add_conversation writes, from the list before the append.
NewIndexId(metas) == Len(metas)

\* The process dies inside a call and is started again: the files stay as the
\* call left them and the new process constructs its store from them.
CrashRestart(files) ==
    /\ index_file' = files.index_file
    /\ metadata_file' = files.metadata_file
    /\ index' = Constructed(files.index_file, files.metadata_file).index
    /\ metadata' = Constructed(files.index_file, files.metadata_file).metadata
    /\ ret' = [op |-> "crash"]

\* add_conversation(user_email, question, response, conversation_id), with
\* its save ending in `outcome`, and the process dying at that point of the
\* save when `crash`.
AddConversation(user_email, question, response, conversation_id, outcome, crash) ==
    /\ Len(metadata) < MaxRecords
    /\ ntotal(index) < MaxRecords
    /\ Faulty(outcome)
    /\ LET embedding == create_embeddings(<<CombinedText(question, response)>>)[1]
           index1    == IndexAdd(index, embedding)
           timestamp == Min(now + 1, MaxClock)
           meta      == Metadata(user_email, question, response,
                                 conversation_id, timestamp, NewIndexId(metadata))
           metadata1 == Append(metadata, meta)
           files     == SaveIndex(index1, metadata1, index_file, metadata_file,
                                  outcome)
       IN  /\ now' = timestamp
           /\ removed' = removed
           /\ IF crash
              THEN CrashRestart(files) /\ adds' = adds
              ELSE /\ index' = index1
                   /\ metadata' = metadata1
                   /\ index_file' = files.index_file
                   /\ metadata_file' = files.metadata_file
                   /\ ret' = [op |-> "add_conversation",
                              result |-> AddResult(metadata1)]
                   /\ adds' = IF removed THEN 0 ELSE adds + 1

\* The statements of add_conversation that can raise: the embedding of the
\* text and the insertion into the index.
AddFailures == {"create_embeddings", "index.add"}

\* Mutant of StoreWhenAddRaises: index.add raises after it stored the vector.
StoreWhenAddRaisesAfterInsert(idx, metas, embedding, failed_at) ==
    [index    |-> IF failed_at = "index.add"
                  THEN IndexAdd(idx, embedding)
                  ELSE idx,
     metadata |-> metas]

\* The store in memory when statement `failed_at` of add_conversation raises:
\* the statements before it have run, none of which assigns to the store, and
\* the statement that raises has had no effect.
StoreWhenAddRaises(idx, metas, embedding, failed_at) ==
    [index |-> idx, metadata |-> metas]

\* add_conversation(user_email, question, response, conversation_id) raising
\* at `failed_at`: the method has no try, so the exception leaves it and
\* neither the append nor save_index is reached.
AddConversationRaises(user_email, question, response, conversation_id, failed_at) ==
    LET embedding == create_embeddings(<<CombinedText(question, response)>>)[1]
        store     == StoreWhenAddRaises(index, metadata, embedding, failed_at)
    IN  /\ index' = store.index
        /\ metadata' = store.metadata
        /\ ret' = [op |-> "add_conversation", raised |-> TRUE,
                   failed_at |-> failed_at,
                   conversation_id |-> conversation_id]
        /\ UNCHANGED <<index_file, metadata_file, now, removed, adds, faults>>

\* delete_user_conversations(user_email), its save (made only when records
\* were removed) ending in `outcome`, the process dying there when `crash`.
DeleteUserConversations(user_email, outcome, crash) ==
    LET indices_to_keep == IndicesToKeep(metadata, user_email, 0)
        deleted_count   == Len(metadata) - Len(indices_to_keep)
    IN  /\ now' = now
        /\ Faulty(outcome)
        /\ IF deleted_count > 0
           THEN IF ReconstructRaises(index, indices_to_keep)
                THEN /\ ~crash
                     /\ outcome = "ok"
                     /\ ret' = [op |-> "delete_user_conversations",
                                user_email |-> user_email, raised |-> TRUE,
                                result |-> 0]
                     /\ UNCHANGED <<index, metadata, index_file, metadata_file,
                                    removed, adds>>
                ELSE LET new_index    == RebuiltIndex(index, indices_to_keep)
                         new_metadata == RebuiltMetadata(metadata, indices_to_keep)
                         files == SaveIndex(new_index, new_metadata, index_file,
                                            metadata_file, outcome)
                     IN  /\ removed' = TRUE
                         /\ adds' = 0
                         /\ IF crash
                            THEN CrashRestart(files)
                            ELSE /\ index' = new_index
                                 /\ metadata' = new_metadata
                                 /\ index_file' = files.index_file
                                 /\ metadata_file' = files.metadata_file
                                 /\ ret' = [op |-> "delete_user_conversations",
                                            user_email |-> user_email,
                                            raised |-> FALSE,
                                            result |-> deleted_count]
           ELSE /\ ~crash
                /\ outcome = "ok"
                /\ ret' = [op |-> "delete_user_conversations",
                           user_email |-> user_email, raised |-> FALSE,
                           result |-> deleted_count]
                /\ UNCHANGED <<index, metadata, index_file, metadata_file,
                               removed, adds>>

\* search_similar_conversations(query, user_email, k): reads the store only.
Search(query, user_email, k) ==
    /\ ret' = [op |-> "search_similar_conversations", query |-> query,
               user_email |-> user_email, k |-> k,
               result |-> SearchSimilarConversations(index, metadata, query,
                                                     user_email, k)]
    /\ UNCHANGED <<index, metadata, index_file, metadata_file, now, removed,
                   adds, faults>>

\* get_relevant_context(query, user_email, max_results): reads the store only.
GetContext(query, user_email, max_results) ==
    /\ LET similar_convos ==
                SearchSimilarConversations(index, metadata, query, user_email,
                                           max_results)
       IN  \E arith \in Arithmetics :
              ret' = [op |-> "get_relevant_context", query |-> query,
                      user_email |-> user_email, max_results |-> max_results,
                      result |-> ContextOf(similar_convos, arith)]
    /\ UNCHANGED <<index, metadata, index_file, metadata_file, now, removed,
                   adds, faults>>

\* get_user_history_summary(user_email, limit): reads the metadata only.
GetSummary(user_email, limit) ==
    /\ ret' = [op |-> "get_user_history_summary", user_email |-> user_email,
               limit |-> limit,
               result |-> GetUserHistorySummary(metadata, user_email, limit)]
    /\ UNCHANGED <<index, metadata, index_file, metadata_file, now, removed,
                   adds, faults>>

\* get_stats(): reads the store only.
GetStatsCall ==
    /\ ret' = [op |-> "get_stats", result |-> GetStats(index, metadata)]
    /\ UNCHANGED <<index, metadata, index_file, metadata_file, now, removed,
                   adds, faults>>

\* A direct call of save_index(), ending in `outcome`.
SaveIndexCall(outcome) ==
    LET files == SaveIndex(index, metadata, index_file, metadata_file, outcome)
    IN  /\ Faulty(outcome)
        /\ index_file' = files.index_file
        /\ metadata_file' = files.metadata_file
        /\ ret' = [op |-> "save_index"]
        /\ UNCHANGED <<index, metadata, now, removed, adds>>

\* A direct call of load_index() on the live service.
LoadIndexCall ==
    LET loaded == LoadIndex(index, metadata, index_file, metadata_file)
    IN  /\ index' = loaded.index
        /\ metadata' = loaded.metadata
        /\ ret' = [op |-> "load_index"]
        /\ UNCHANGED <<index_file, metadata_file, now, removed, adds, faults>>
        /\ UNCHANGED chat_vars

\* The process is stopped between two calls and started again (__init__).
Restart ==
    /\ index' = Constructed(index_file, metadata_file).index
    /\ metadata' = Constructed(index_file, metadata_file).metadata
    /\ ret' = [op |-> "__init__"]
    /\ turns' = [t \in TurnIds |-> IdleTurn]
    /\ running' = 0
    /\ frames' = [r \in TurnIds |-> IdleFrame]
    /\ UNCHANGED <<index_file, metadata_file, now, removed, adds, faults,
                   conversations, reply>>

(* ------------------------------ chat turn ------------------------------ *)

\* max_results of the retrieval made by generate_response and by GET
\* /api/chat/context.
RagMaxResults == 3

\* chat_request.context of the requests: none is sent.
ChatContexts == {None}

\* What chain.arun returns when it returns: the text of the model, with
\* white space around it.
LLMOutputs == {" ok\n"}

\* How get_relevant_context ends inside generate_response.
RetrievalOutcomes == {"ok", "raises"}

\* How chain.arun ends: the model answered, or the call raised.
AnswerOutcomes == {"ok", "llm_raises"}

\* str.isspace() of one character: the space, \t, \n, \r, the vertical tab
\* (0B), the form feed, the separators 1C to 1F, the next line (85), the
\* no-break space (A0) and the ogham space mark (1680).  The spaces from
\* U+2000 on cannot be written in a string of the module.
IsSpace(c) ==
    c \in {" ", "\n", "\t", "\r", "\f", "", "", "", "", "",
           "", " ", " "}

\* str.lstrip()
RECURSIVE LStrip(_)
LStrip(s) ==
    IF Len(s) > 0 /\ IsSpace(SubSeq(s, 1, 1))
    THEN LStrip(SubSeq(s, 2, Len(s)))
    ELSE s

\* str.rstrip()
RECURSIVE RStrip(_)
RStrip(s) ==
    IF Len(s) > 0 /\ IsSpace(SubSeq(s, Len(s), Len(s)))
    THEN RStrip(SubSeq(s, 1, Len(s) - 1))
    ELSE s

\* response.strip()
Strip(s) == RStrip(LStrip(s))

\* context_str of generate_response: the request's context, or a fixed text
\* when there is none, followed by the retrieved context when it is not empty.
ContextStr(context, rag_context) ==
    LET context_str == IF context # None /\ context # ""
                       THEN context
                       ELSE "No additional context provided."
    IN  IF rag_context # ""
        THEN context_str \o "\n\n" \o rag_context
        ELSE context_str

\* Mutant of Exchange: the text retrieved for the turn is stored as its
\* answer.
ExchangeOfRetrievedContext(turn, response) ==
    [user_email |-> turn.user_email, question |-> turn.question,
     response |-> turn.rag_context]

\* The arguments generate_response_with_history passes to add_conversation
\* for a turn and the answer of the model.
Exchange(turn, response) ==
    [user_email |-> turn.user_email, question |-> turn.question,
     response |-> response]

\* The id the database gives a new row of "conversations".
NextRowId(rows) ==
    IF Len(rows) = 0
    THEN 1
    ELSE 1 + CHOOSE m \in {rows[i].id : i \in DOMAIN rows} :
                 \A i \in DOMAIN rows : rows[i].id <= m

\* Conversation(user_email, question, response, context) once committed.
ConversationRow(id, user_email, question, response, context) ==
    [id |-> id, user_email |-> user_email, question |-> question,
     response |-> response, context |-> context]

\* The HTTPException of send_message (status 500) for a turn in which the
\* call `failed_at` raised.
ErrorReply(failed_at) ==
    [status |-> 500, failed_at |-> failed_at, response |-> "",
     vector_id |-> -1]

\* The ChatResponse of send_message (status 200), with the vector_id
\* add_conversation returned for the turn.
ChatResponse(response, vector_id) ==
    [status |-> 200, failed_at |-> "", response |-> response,
     vector_id |-> vector_id]

\* POST /api/chat/message in request slot t (the lowest free slot), up to the
\* await of chain.arun: generate_response retrieves the context of the message
\* and builds the prompt.  The retrieval can raise (in create_embeddings or
\* in index.search) only on a store that holds a vector, an empty one being
\* answered before either is called.  When it raises, generate_response raises
\* again, so does generate_response_with_history, and send_message answers 500
\* without having called the model.
SendMessage(t, user_email, message, context, retrieval) ==
    /\ turns[t].pc = "idle"
    /\ \A s \in TurnIds : s < t => turns[s].pc # "idle"
    /\ retrieval = "raises" => ntotal(index) > 0
    /\ IF retrieval = "raises"
       THEN /\ reply' = ErrorReply("get_relevant_context")
            /\ turns' = turns
       ELSE /\ reply' = reply
            /\ LET similar_convos ==
                    SearchSimilarConversations(index, metadata, message,
                                               user_email, RagMaxResults)
               IN  \E arith \in Arithmetics :
                  LET rag_context ==
                          ContextOf(similar_convos, arith)
                  IN  turns' = [turns EXCEPT ![t] =
                                  [pc             |-> "awaiting",
                                   user_email     |-> user_email,
                                   question       |-> message,
                                   rag_context    |-> rag_context,
                                   prompt_context |->
                                       ContextStr(context, rag_context)]]
    /\ UNCHANGED <<index, metadata, index_file, metadata_file, now, ret,
                   removed, adds, faults, conversations, running, frames>>

\* The rest of the request of slot t, from the end of chain.arun to the
\* response of send_message, with no await in between: when chain.arun raised
\* the turn ends with status 500; otherwise the answer is stripped, the
\* exchange is added to the vector store and the row is committed.
ModelReturns(t, outcome, raw) ==
    /\ turns[t].pc = "awaiting"
    /\ turns' = [turns EXCEPT ![t] = IdleTurn]
    /\ UNCHANGED <<running, frames>>
    /\ IF outcome = "llm_raises"
       THEN /\ reply' = ErrorReply("chain.arun")
            /\ UNCHANGED <<index, metadata, index_file, metadata_file, now,
                           ret, removed, adds, faults, conversations>>
       ELSE LET response == Strip(raw)
                exchange == Exchange(turns[t], response)
            IN  /\ AddConversation(exchange.user_email, exchange.question,
                                   exchange.response, NoId, "ok", FALSE)
                /\ conversations' =
                      Append(conversations,
                             ConversationRow(NextRowId(conversations),
                                             turns[t].user_email,
                                             turns[t].question,
                                             response, None))
                /\ reply' = ChatResponse(response, AddResult(metadata'))

(* ------------------------------ event loop ----------------------------- *)
(* The server is one uvicorn process with one event loop.  Every route is  *)
(* an `async def` and every method of the store is synchronous, so a       *)
(* handler runs statement after statement on the loop's thread and another *)
(* request can only run while the handler is suspended at an await.  The   *)
(* statements are named after the code they execute.                       *)

\* Mutant of AwaitPoints: the rebuild awaits between its two assignments.
AwaitPointsInRebuild == {"chain.arun", "self.metadata ="}

\* Mutant of AwaitPoints: the search awaits between index.search and the loop
\* over its hits.
AwaitPointsInSearch == {"chain.arun", "for distance, idx"}

\* The statements at which a handler is suspended: the await of chain.arun in
\* generate_response.  No statement of the store's methods awaits.
AwaitPoints == {"chain.arun"}

\* Who holds the loop's thread once a request stands at statement pc.
Holder(r, pc) == IF pc = "idle" \/ pc \in AwaitPoints THEN 0 ELSE r

\* The handlers a client can ask for, each at its first statement:
\* send_message, clear_user_vector_store and search_similar_conversations
\* (the routes pass the current user, never None).
Requests ==
    {[pc |-> "get_relevant_context", user_email |-> u, question |-> q] :
        u \in Users, q \in Questions}
    \cup {[pc |-> "indices_to_keep", user_email |-> u] : u \in Users}
    \cup {[pc |-> "index.search", query |-> q, user_email |-> u, k |-> k] :
            q \in Queries, u \in Users, k \in Ks}

\* Request r goes on to `frame`.
Goto(r, frame) ==
    /\ frames' = [frames EXCEPT ![r] = frame]
    /\ running' = Holder(r, frame.pc)

\* Request r executes the statement named pc.
At(r, pc) == running = r /\ frames[r].pc = pc

\* The loop is free and starts the handler of a new request in the lowest
\* free slot.
Dispatch(r, frame) ==
    /\ running = 0
    /\ frames[r].pc = "idle"
    /\ \A s \in TurnIds : s < r => frames[s].pc # "idle"
    /\ Goto(r, frame)
    /\ UNCHANGED <<index, metadata, index_file, metadata_file, now, ret,
                   removed, adds, faults, turns, conversations, reply>>

\* The loop is free and resumes a suspended handler (for chain.arun: the
\* model has answered; the model answers while the store and the table have
\* room).
Resume(r) ==
    /\ running = 0
    /\ frames[r].pc \in AwaitPoints
    /\ frames[r].pc = "chain.arun"
          => /\ Len(metadata) < MaxRecords
             /\ ntotal(index) < MaxRecords
             /\ Len(conversations) < MaxRecords
    /\ running' = r
    /\ UNCHANGED <<index, metadata, index_file, metadata_file, now, ret,
                   removed, adds, faults, turns, conversations, reply, frames>>

\* generate_response: rag_context = self.vector_store.get_relevant_context(...)
\* and the prompt built from it, which chain.arun is called with.  The frame
\* keeps the locals the handler still reads after the await.
StmtGetRelevantContext(r) ==
    /\ At(r, "get_relevant_context")
    /\ Goto(r, [pc |-> "chain.arun",
                user_email |-> frames[r].user_email,
                question |-> frames[r].question])
    /\ UNCHANGED <<index, metadata, index_file, metadata_file, now, ret,
                   removed, adds, faults, turns, conversations, reply>>

\* generate_response: response = await chain.arun(...); return response.strip()
StmtArun(r, raw) ==
    /\ At(r, "chain.arun")
    /\ Goto(r, [pc |-> "index.add",
                user_email |-> frames[r].user_email,
                question |-> frames[r].question,
                response |-> Strip(raw)])
    /\ UNCHANGED <<index, metadata, index_file, metadata_file, now, ret,
                   removed, adds, faults, turns, conversations, reply>>

\* Mutant of StmtArunRaises: the failed turn still writes its row.
StmtArunRaisesRowWritten(r) ==
    /\ At(r, "chain.arun")
    /\ reply' = ErrorReply("chain.arun")
    /\ conversations' =
          Append(conversations,
                 ConversationRow(NextRowId(conversations),
                                 frames[r].user_email, frames[r].question,
                                 "", None))
    /\ Goto(r, IdleFrame)
    /\ UNCHANGED <<index, metadata, index_file, metadata_file, now, ret,
                   removed, adds, faults, turns>>

\* generate_response: chain.arun raises.  generate_response raises again, so
\* does generate_response_with_history before it reaches add_conversation,
\* and send_message answers 500 before it reaches db.add.
StmtArunRaises(r) ==
    /\ At(r, "chain.arun")
    /\ reply' = ErrorReply("chain.arun")
    /\ Goto(r, IdleFrame)
    /\ UNCHANGED <<index, metadata, index_file, metadata_file, now, ret,
                   removed, adds, faults, turns, conversations>>

\* add_conversation: embedding = ...; self.index.add(...)
StmtIndexAdd(r) ==
    /\ At(r, "index.add")
    /\ index' = IndexAdd(index,
                    create_embeddings(<<CombinedText(frames[r].question,
                                                     frames[r].response)>>)[1])
    /\ Goto(r, [frames[r] EXCEPT !.pc = "metadata.append"])
    /\ UNCHANGED <<metadata, index_file, metadata_file, now, ret, removed,
                   adds, faults, turns, conversations, reply>>

\* add_conversation: metadata = {...}; self.metadata.append(metadata)
StmtMetadataAppend(r) ==
    /\ At(r, "metadata.append")
    /\ now' = Min(now + 1, MaxClock)
    /\ metadata' = Append(metadata,
                          Metadata(frames[r].user_email, frames[r].question,
                                   frames[r].response, NoId, now',
                                   NewIndexId(metadata)))
    /\ Goto(r, [frames[r] EXCEPT !.pc = "add: save_index"])
    /\ UNCHANGED <<index, index_file, metadata_file, ret, removed, adds,
                   faults, turns, conversations, reply>>

\* add_conversation: self.save_index(); return len(self.metadata) - 1
StmtAddSave(r) ==
    /\ At(r, "add: save_index")
    /\ LET files == SaveIndex(index, metadata, index_file, metadata_file, "ok")
       IN  /\ index_file' = files.index_file
           /\ metadata_file' = files.metadata_file
    /\ ret' = [op |-> "add_conversation", result |-> AddResult(metadata)]
    /\ adds' = IF removed THEN 0 ELSE adds + 1
    /\ Goto(r, [pc |-> "db.commit",
                user_email |-> frames[r].user_email,
                question |-> frames[r].question,
                response |-> frames[r].response,
                vector_id |-> AddResult(metadata)])
    /\ UNCHANGED <<index, metadata, now, removed, faults, turns,
                   conversations, reply>>

\* send_message: db.add(conversation); db.commit(); return ChatResponse(...)
StmtCommit(r) ==
    /\ At(r, "db.commit")
    /\ conversations' =
          Append(conversations,
                 ConversationRow(NextRowId(conversations),
                                 frames[r].user_email, frames[r].question,
                                 frames[r].response, None))
    /\ reply' = ChatResponse(frames[r].response, frames[r].vector_id)
    /\ Goto(r, IdleFrame)
    /\ UNCHANGED <<index, metadata, index_file, metadata_file, now, ret,
                   removed, adds, faults, turns>>

\* What delete_user_conversations returned (or that it raised).
DeleteReturn(user_email, raised, result) ==
    [op |-> "delete_user_conversations", user_email |-> user_email,
     raised |-> raised, result |-> result]

\* delete_user_conversations: indices_to_keep = [...]; deleted_count = ...;
\* with nothing to delete the method returns 0.
StmtIndicesToKeep(r) ==
    /\ At(r, "indices_to_keep")
    /\ LET indices_to_keep == IndicesToKeep(metadata, frames[r].user_email, 0)
           deleted_count   == Len(metadata) - Len(indices_to_keep)
       IN  IF deleted_count > 0
           THEN /\ Goto(r, [pc |-> "reconstruct",
                            user_email |-> frames[r].user_email,
                            indices_to_keep |-> indices_to_keep,
                            deleted_count |-> deleted_count])
                /\ ret' = ret
           ELSE /\ Goto(r, IdleFrame)
                /\ ret' = DeleteReturn(frames[r].user_email, FALSE, 0)
    /\ UNCHANGED <<index, metadata, index_file, metadata_file, now, removed,
                   adds, faults, turns, conversations, reply>>

\* delete_user_conversations: the loop that fills new_index and new_metadata;
\* index.reconstruct raises for a position the index does not hold.
StmtReconstruct(r) ==
    /\ At(r, "reconstruct")
    /\ IF \/ ReconstructRaises(index, frames[r].indices_to_keep)
          \/ \E j \in DOMAIN frames[r].indices_to_keep :
                 frames[r].indices_to_keep[j] >= Len(metadata)
       THEN /\ Goto(r, IdleFrame)
            /\ ret' = DeleteReturn(frames[r].user_email, TRUE, 0)
       ELSE /\ Goto(r, [pc |-> "self.index =",
                        user_email |-> frames[r].user_email,
                        deleted_count |-> frames[r].deleted_count,
                        new_index |->
                            RebuiltIndex(index, frames[r].indices_to_keep),
                        new_metadata |->
                            RebuiltMetadata(metadata,
                                            frames[r].indices_to_keep)])
            /\ ret' = ret
    /\ UNCHANGED <<index, metadata, index_file, metadata_file, now, removed,
                   adds, faults, turns, conversations, reply>>

\* delete_user_conversations: self.index = new_index
StmtSetIndex(r) ==
    /\ At(r, "self.index =")
    /\ index' = frames[r].new_index
    /\ Goto(r, [pc |-> "self.metadata =",
                user_email |-> frames[r].user_email,
                deleted_count |-> frames[r].deleted_count,
                new_metadata |-> frames[r].new_metadata])
    /\ UNCHANGED <<metadata, index_file, metadata_file, now, ret, removed,
                   adds, faults, turns, conversations, reply>>

\* delete_user_conversations: self.metadata = new_metadata
StmtSetMetadata(r) ==
    /\ At(r, "self.metadata =")
    /\ metadata' = frames[r].new_metadata
    /\ removed' = TRUE
    /\ adds' = 0
    /\ Goto(r, [pc |-> "delete: save_index",
                user_email |-> frames[r].user_email,
                deleted_count |-> frames[r].deleted_count])
    /\ UNCHANGED <<index, index_file, metadata_file, now, ret, faults, turns,
                   conversations, reply>>

\* delete_user_conversations: self.save_index(); return deleted_count
StmtDeleteSave(r) ==
    /\ At(r, "delete: save_index")
    /\ LET files == SaveIndex(index, metadata, index_file, metadata_file, "ok")
       IN  /\ index_file' = files.index_file
           /\ metadata_file' = files.metadata_file
    /\ ret' = DeleteReturn(frames[r].user_email, FALSE,
                           frames[r].deleted_count)
    /\ Goto(r, IdleFrame)
    /\ UNCHANGED <<index, metadata, now, removed, adds, faults, turns,
                   conversations, reply>>

\* search_similar_conversations: the empty-index test, the query embedding
\* and self.index.search(...).
StmtIndexSearch(r) ==
    /\ At(r, "index.search")
    /\ IF ntotal(index) = 0
       THEN Goto(r, [pc |-> "return results",
                     query |-> frames[r].query,
                     user_email |-> frames[r].user_email,
                     k |-> frames[r].k,
                     results |-> << >>])
       ELSE Goto(r, [pc |-> "for distance, idx",
                     query |-> frames[r].query,
                     user_email |-> frames[r].user_email,
                     k |-> frames[r].k,
                     hits |->
                         IndexSearch(index,
                                     create_embeddings(<<frames[r].query>>)[1],
                                     FetchCount(frames[r].k, ntotal(index)))])
    /\ UNCHANGED <<index, metadata, index_file, metadata_file, now, ret,
                   removed, adds, faults, turns, conversations, reply>>

\* The loop of search_similar_conversations over the hits of index.search,
\* reading self.metadata.
FilterHits(metas, hits, user_email, k) ==
    LET kept == SelectSeq(hits, LAMBDA h : Survives(metas, h, user_email))
    IN  FirstK([i \in DOMAIN kept |->
                   Scored(metas[kept[i].idx + 1], kept[i].distance)], k)

\* search_similar_conversations: for distance, idx in zip(...): ...
StmtFilter(r) ==
    /\ At(r, "for distance, idx")
    /\ Goto(r, [pc |-> "return results",
                query |-> frames[r].query,
                user_email |-> frames[r].user_email,
                k |-> frames[r].k,
                results |-> FilterHits(metadata, frames[r].hits,
                                       frames[r].user_email, frames[r].k)])
    /\ UNCHANGED <<index, metadata, index_file, metadata_file, now, ret,
                   removed, adds, faults, turns, conversations, reply>>

\* search_similar_conversations: return results, which the route sends to the
\* client.
StmtReturnResults(r) ==
    /\ At(r, "return results")
    /\ Goto(r, IdleFrame)
    /\ UNCHANGED <<index, metadata, index_file, metadata_file, now, ret,
                   removed, adds, faults, turns, conversations, reply>>

(* ------------------------------ chat history --------------------------- *)

\* The rows of a table without the row `id`.
WithoutRow(rows, id) == SelectSeq(rows, LAMBDA row : row.id # id)

\* Mutant of DeleteConversation: the handler also clears the records of the
\* user from the vector store.
DeleteConversationAndClear(conversation_id, user_email) ==
    LET found == \E i \in DOMAIN conversations :
                    /\ conversations[i].id = conversation_id
                    /\ conversations[i].user_email = user_email
    IN  /\ found
        /\ conversations' = WithoutRow(conversations, conversation_id)
        /\ DeleteUserConversations(user_email, "ok", FALSE)
        /\ UNCHANGED <<turns, reply, running, frames>>

\* DELETE /api/chat/history/{conversation_id} by the user `user_email`: 404
\* when the user has no row of that id; otherwise the row is deleted and the
\* deletion committed.  The handler makes no call on the vector store.
DeleteConversation(conversation_id, user_email) ==
    LET found == \E i \in DOMAIN conversations :
                    /\ conversations[i].id = conversation_id
                    /\ conversations[i].user_email = user_email
    IN  /\ conversations' = IF found
                            THEN WithoutRow(conversations, conversation_id)
                            ELSE conversations
        /\ ret' = [op |-> "delete_conversation",
                   status |-> IF found THEN 200 ELSE 404]
        /\ UNCHANGED <<index, metadata, index_file, metadata_file, now,
                       removed, adds, faults, turns, reply, running, frames>>

(* ------------------------------ migration ------------------------------ *)
(* scripts/migrate_conversations_to_vector_store.py: a process of its own, *)
(* started on the storage directory and the SQL table as the server left   *)
(* them.  Its frame is frames[1]; besides the locals of the script the     *)
(* frame keeps, as history, the calls made and the size of the store at    *)
(* the start.                                                              *)

\* The id of the first row of the table: ids need not start at 1.
FirstRowIds == {1, 2}

\* The tables the script can find: up to MaxRecords rows with ascending ids.
ConversationTables ==
    UNION {{[i \in 1..n |->
                ConversationRow(first + i - 1, owner[i], question[i], "ok",
                                None)] :
              first \in FirstRowIds, owner \in [1..n -> Users],
              question \in [1..n -> Questions]} :
           n \in 0..MaxRecords}

\* How the add_conversation of one row ends.
RowOutcomes == {"ok"} \cup AddFailures

\* Mutant of AfterRow: a row whose add raised is not counted.
AfterRowErrorsUncounted(frame, row, raised) ==
    [frame EXCEPT !.i = @ + 1,
                  !.success_count = IF raised THEN @ ELSE @ + 1,
                  !.calls = Append(@, [conversation_id |-> row.id,
                                       raised |-> raised])]

\* The frame after the body of the loop ran for `row`: success_count += 1
\* when add_conversation returned, error_count += 1 in the except branch.
AfterRow(frame, row, raised) ==
    [frame EXCEPT !.i = @ + 1,
                  !.success_count = IF raised THEN @ ELSE @ + 1,
                  !.error_count = IF raised THEN @ + 1 ELSE @,
                  !.calls = Append(@, [conversation_id |-> row.id,
                                       raised |-> raised])]

\* The server adds a record before the script is run (the store has room for
\* the rows of the table).
AddBeforeMigration(user_email, question) ==
    /\ frames[1].pc = "idle"
    /\ Len(metadata) + Len(conversations) < MaxRecords
    /\ AddConversation(user_email, question, "ok", NoId, "ok", FALSE)
    /\ UNCHANGED chat_vars

\* conversations = db.query(Conversation).all(); the script returns when
\* there is none, and otherwise sets its two counters to 0.
MigrateStart ==
    /\ frames[1].pc = "idle"
    /\ frames' = [frames EXCEPT ![1] =
                     IF Len(conversations) = 0
                     THEN [pc |-> "No conversations found"]
                     ELSE [pc |-> "for convo in conversations",
                           i |-> 1,
                           success_count |-> 0,
                           error_count |-> 0,
                           calls |-> << >>,
                           ntotal_before |-> ntotal(index),
                           metadata_before |-> Len(metadata)]]
    /\ UNCHANGED <<index, metadata, index_file, metadata_file, now, ret,
                   removed, adds, faults, turns, conversations, reply,
                   running>>

\* One pass of the loop: add_conversation for the next row, ending in
\* `outcome`.
MigrateRow(outcome) ==
    /\ frames[1].pc = "for convo in conversations"
    /\ frames[1].i <= Len(conversations)
    /\ LET convo == conversations[frames[1].i]
       IN  /\ IF outcome = "ok"
              THEN AddConversation(convo.user_email, convo.question,
                                   convo.response, convo.id, "ok", FALSE)
              ELSE AddConversationRaises(convo.user_email, convo.question,
                                         convo.response, convo.id, outcome)
           /\ frames' = [frames EXCEPT ![1] =
                            AfterRow(frames[1], convo, outcome # "ok")]
    /\ UNCHANGED <<turns, conversations, reply, running>>

\* The loop is over: the counters are printed and get_stats is called.
MigrateComplete ==
    /\ frames[1].pc = "for convo in conversations"
    /\ frames[1].i > Len(conversations)
    /\ frames' = [frames EXCEPT ![1].pc = "Migration complete"]
    /\ ret' = [op |-> "get_stats", result |-> GetStats(index, metadata)]
    /\ UNCHANGED <<index, metadata, index_file, metadata_file, now, removed,
                   adds, faults, turns, conversations, reply, running>>

(* ---------------------------- specifications --------------------------- *)

\* The calls below are made on the service directly; they touch neither a
\* send_message request nor the SQL table.
Add ==
    /\ \E u \in Users, q \in Questions, r \in Responses, c \in ConversationIds :
          AddConversation(u, q, r, c, "ok", FALSE)
    /\ UNCHANGED chat_vars

Delete ==
    /\ \E u \in Users : DeleteUserConversations(u, "ok", FALSE)
    /\ UNCHANGED chat_vars

DoSearch ==
    /\ \E q \in Queries, u \in Users \cup {None}, k \in Ks : Search(q, u, k)
    /\ UNCHANGED chat_vars

Save == SaveIndexCall("ok") /\ UNCHANGED chat_vars

Stats == GetStatsCall /\ UNCHANGED chat_vars

DoSummary ==
    /\ \E u \in Users, limit \in Limits : GetSummary(u, limit)
    /\ UNCHANGED chat_vars

\* A call of get_relevant_context: with max_results = 3, as GET
\* /api/chat/context and generate_response call it, or with a smaller
\* max_results, as a script calls it.
DoContext ==
    /\ \E q \in Queries, u \in Users, m \in Ks \cup {RagMaxResults} :
          GetContext(q, u, m)
    /\ UNCHANGED chat_vars

AddFault ==
    /\ \E u \in Users, q \in Questions, r \in Responses, c \in ConversationIds,
          outcome \in SaveFaults, crash \in BOOLEAN :
          AddConversation(u, q, r, c, outcome, crash)
    /\ UNCHANGED chat_vars

DeleteFault ==
    /\ \E u \in Users, outcome \in SaveFaults, crash \in BOOLEAN :
          DeleteUserConversations(u, outcome, crash)
    /\ UNCHANGED chat_vars

SaveFault ==
    /\ \E outcome \in SaveFaults : SaveIndexCall(outcome)
    /\ UNCHANGED chat_vars

\* Every write to the storage directory succeeds and the process is only
\* stopped between calls.
Next ==
    \/ Add \/ Delete \/ DoSearch \/ Save \/ LoadIndexCall \/ Restart
    \/ Stats \/ DoContext \/ DoSummary

Spec == Init /\ [][Next]_vars

\* Writes may fail and the process may die at any point of a save.  The
\* calls that write or load the store, the search and get_stats are kept;
\* the calls that only render records as text are left to Spec.
NextFault ==
    \/ Add \/ Delete \/ DoSearch \/ Save \/ LoadIndexCall \/ Restart
    \/ Stats \/ AddFault \/ DeleteFault \/ SaveFault

SpecFault == Init /\ [][NextFault]_vars

Send ==
    \E t \in TurnIds, u \in Users, q \in Questions, c \in ChatContexts,
       retrieval \in RetrievalOutcomes :
        SendMessage(t, u, q, c, retrieval)

Answer ==
    \E t \in TurnIds, outcome \in AnswerOutcomes, raw \in LLMOutputs :
        ModelReturns(t, outcome, raw)

\* The chat requests: up to two send_message turns in flight, interleaved at
\* the await of the model.
NextChat == Send \/ Answer

SpecChat == Init /\ [][NextChat]_vars

\* The requests of the server, statement by statement, under the event loop.
NextLoop ==
    \/ \E r \in TurnIds, frame \in Requests : Dispatch(r, frame)
    \/ \E r \in TurnIds : Resume(r)
    \/ \E r \in TurnIds : StmtGetRelevantContext(r)
    \/ \E r \in TurnIds, raw \in LLMOutputs : StmtArun(r, raw)
    \/ \E r \in TurnIds : StmtIndexAdd(r)
    \/ \E r \in TurnIds : StmtMetadataAppend(r)
    \/ \E r \in TurnIds : StmtAddSave(r)
    \/ \E r \in TurnIds : StmtCommit(r)
    \/ \E r \in TurnIds : StmtIndicesToKeep(r)
    \/ \E r \in TurnIds : StmtReconstruct(r)
    \/ \E r \in TurnIds : StmtSetIndex(r)
    \/ \E r \in TurnIds : StmtSetMetadata(r)
    \/ \E r \in TurnIds : StmtDeleteSave(r)
    \/ \E r \in TurnIds : StmtIndexSearch(r)
    \/ \E r \in TurnIds : StmtFilter(r)
    \/ \E r \in TurnIds : StmtReturnResults(r)

SpecLoop == Init /\ [][NextLoop]_vars

\* The send_message requests among the handlers.
ChatRequests == {frame \in Requests : frame.pc = "get_relevant_context"}

\* The send_message requests of the server, statement by statement, the
\* model answering or failing.
NextTurns ==
    \/ \E r \in TurnIds, frame \in ChatRequests : Dispatch(r, frame)
    \/ \E r \in TurnIds : Resume(r)
    \/ \E r \in TurnIds : StmtGetRelevantContext(r)
    \/ \E r \in TurnIds, raw \in LLMOutputs : StmtArun(r, raw)
    \/ \E r \in TurnIds : StmtArunRaises(r)
    \/ \E r \in TurnIds : StmtIndexAdd(r)
    \/ \E r \in TurnIds : StmtMetadataAppend(r)
    \/ \E r \in TurnIds : StmtAddSave(r)
    \/ \E r \in TurnIds : StmtCommit(r)

SpecTurns == Init /\ [][NextTurns]_vars

\* The messages sent while the history is managed.
HistoryQuestions == {"water"}

\* One send_message turn at a time, for a table that has room for its row.
SendOne ==
    \E u \in Users, q \in HistoryQuestions, c \in ChatContexts :
        SendMessage(1, u, q, c, "ok")

AnswerOne ==
    /\ Len(conversations) < MaxRecords
    /\ NextRowId(conversations) <= MaxRecords
    /\ \E raw \in LLMOutputs : ModelReturns(1, "ok", raw)

DeleteRow ==
    \E id \in 1..MaxRecords, u \in Users : DeleteConversation(id, u)

\* GET /api/chat/similar by a user, with the largest limit of the model.
SearchOwn ==
    /\ \E q \in Queries, u \in Users : Search(q, u, MaxK)
    /\ UNCHANGED chat_vars

\* The chat of the users and the management of their history: turns, the
\* deletion of a row, the clearing of the vector store, and retrievals.
NextHistory ==
    \/ SendOne \/ AnswerOne \/ DeleteRow \/ Delete \/ SearchOwn

SpecHistory == Init /\ [][NextHistory]_vars

AddRaises ==
    /\ \E u \in Users, q \in Questions, r \in Responses, c \in ConversationIds,
          failed_at \in AddFailures :
          AddConversationRaises(u, q, r, c, failed_at)
    /\ UNCHANGED chat_vars

\* The calls that write the store, where the embedding model or the index
\* can refuse an add.
NextRaise == Add \/ Delete \/ Save \/ Restart \/ AddRaises

SpecRaise == Init /\ [][NextRaise]_vars

\* The script starts on a table of rows and a storage directory.
InitMigrate ==
    /\ index_file = AbsentFile
    /\ metadata_file = AbsentFile
    /\ index = Constructed(AbsentFile, AbsentFile).index
    /\ metadata = Constructed(AbsentFile, AbsentFile).metadata
    /\ now = 0
    /\ ret = [op |-> "__init__"]
    /\ removed = FALSE
    /\ adds = 0
    /\ faults = 0
    /\ turns = [t \in TurnIds |-> IdleTurn]
    /\ conversations \in ConversationTables
    /\ reply = NoReply
    /\ running = 0
    /\ frames = [r \in TurnIds |-> IdleFrame]

NextMigrate ==
    \/ \E u \in Users, q \in Questions : AddBeforeMigration(u, q)
    \/ MigrateStart
    \/ \E outcome \in RowOutcomes : MigrateRow(outcome)
    \/ MigrateComplete

\* One run of the migration script.
SpecMigrate == InitMigrate /\ [][NextMigrate]_vars

\* The distances of the hits that are scored: 0, a number below the half of
\* the last place of 1 in float64, numbers below, at and just above the half
\* of the last place of 1 in float32, neighbours in [0.5, 1), small integers,
\* and numbers so large that adding 1 to them is rounded away in float32.
Distances ==
    {Float32Zero,
     Float32(Two23, -80),
     Float32(Two23, -48), Float32(Two23, -47), Float32(Two23 + 1, -47),
     Float32(Two23, -24), Float32(Two23 + 1, -24),
     Float32(Two23, -23), Float32(Two23, -22), Float32(Two23 + Two23 \div 2, -22),
     Float32(Two24 - 1, -18),
     Float32(Two23, 1), Float32(Two23 + 1, 1)}

\* index.search has returned two hits, in ascending distance.
InitScore ==
    /\ index_file = AbsentFile
    /\ metadata_file = AbsentFile
    /\ index = IndexFlatL2
    /\ metadata = << >>
    /\ now = 0
    /\ \E d1, d2 \in Distances :
          /\ ~Float32Less(d2, d1)
          /\ ret = [op |-> "index.search", distances |-> <<d1, d2>>]
    /\ removed = FALSE
    /\ adds = 0
    /\ faults = 0
    /\ turns = [t \in TurnIds |-> IdleTurn]
    /\ conversations = << >>
    /\ reply = NoReply
    /\ running = 0
    /\ frames = [r \in TurnIds |-> IdleFrame]

\* The loop of search_similar_conversations attaches its score to each hit,
\* in the arithmetic of the build.
ScoreHits ==
    /\ ret.op = "index.search"
    /\ \E arith \in Arithmetics :
          ret' = [op |-> "similarity_score",
                  arith |-> arith,
                  distances |-> ret.distances,
                  scores |-> [i \in DOMAIN ret.distances |->
                                 SimilarityScoreFloat(arith,
                                                      ret.distances[i])]]
    /\ UNCHANGED <<index, metadata, index_file, metadata_file, now, removed,
                   adds, faults>>
    /\ UNCHANGED chat_vars

NextScore == ScoreHits

\* The scoring of two hits, for every pair of distances.
SpecScore == InitScore /\ [][NextScore]_vars

(* ------------------------ helpers of the claims ------------------------ *)

\* The number of records of `user_email` in a metadata list.
OwnedCount(metas, user_email) ==
    Cardinality({i \in DOMAIN metas : metas[i].user_email = user_email})

(* -------------------------------- claims ------------------------------- *)

\* C1: in every reachable state, a restart after a crash at any point of a
\* save included, the index holds as many vectors as there are metadata
\* records.
C1_Lockstep == ntotal(index) = Len(metadata)

\* C2: owner isolation.  Every record returned by a search with owner filter
\* A has user_email A, whatever the store holds and whatever adds and deletes
\* came before (the search action is taken for every query, owner and k in
\* every reachable store).
C2_OwnerIsolation ==
    (ret.op = "search_similar_conversations" /\ ret.user_email # None)
        => \A i \in DOMAIN ret.result :
               ret.result[i].user_email = ret.user_email

\* C2 witness: after a deletion, a search filtered by one owner returned a
\* record while the store also held a record of the other owner.
C2_Witness ==
    /\ ret.op = "search_similar_conversations"
    /\ ret.user_email = "a@farm"
    /\ Len(ret.result) >= 1
    /\ OwnedCount(metadata, "b@farm") >= 1
    /\ removed

\* The step is an add_conversation for owner u that returned.
AddedFor(u) ==
    /\ ret'.op = "add_conversation"
    /\ Len(metadata') = Len(metadata) + 1
    /\ metadata'[Len(metadata')].user_email = u

\* C3: after delete_user_conversations(A) returns, no stored record has
\* owner A; a search filtered by an owner without a record returns the empty
\* list; and an owner without a record stays without one over every step that
\* is not an add_conversation for that owner, a load_index or a restart of
\* the process included.
C3_DeletedOwnerGone ==
    /\ [](ret.op = "delete_user_conversations" /\ ~ret.raised
              => OwnedCount(metadata, ret.user_email) = 0)
    /\ []((/\ ret.op = "search_similar_conversations"
           /\ ret.user_email # None
           /\ OwnedCount(metadata, ret.user_email) = 0)
              => ret.result = << >>)
    /\ [][\A u \in Users :
              (OwnedCount(metadata, u) = 0 /\ ~AddedFor(u))
                  => OwnedCount(metadata', u) = 0]_vars

\* The (record, vector) pairs of a store, by slot.
Pairs(idx, metas) == [i \in DOMAIN metas |-> <<metas[i], idx[i]>>]

\* C4: delete_user_conversations(A) returns the number of records A had
\* before the call, get_stats().total_conversations goes down by that number,
\* and the records of the other owners stay, each with its own vector, in
\* their order.
C4_DeleteCountsAndKeeps ==
    [][(ret'.op = "delete_user_conversations" /\ ~ret'.raised)
          => /\ ret'.result = OwnedCount(metadata, ret'.user_email)
             /\ GetStats(index', metadata').total_conversations
                  = GetStats(index, metadata).total_conversations - ret'.result
             /\ Pairs(index', metadata')
                  = SelectSeq(Pairs(index, metadata),
                              LAMBDA p : p[1].user_email # ret'.user_email)]_vars

\* C4 witness: a delete removed a record and kept two records of the other
\* owner that have different vectors.
C4_Witness ==
    /\ ret.op = "delete_user_conversations"
    /\ ret.result >= 1
    /\ Len(metadata) = 2
    /\ index[1] # index[2]

\* C5: in every reachable state the index_id stored in the record of slot i
\* is i (delete_user_conversations reassigns the positions 0..N-1).
C5_PositionIsSlot ==
    \A i \in DOMAIN metadata : metadata[i].index_id = i - 1

\* C6: add_conversation returns the number of records stored before the call;
\* that value is the slot of the new vector and the index_id of the new
\* record; with no deletion so far the n-th add (0-based) returns n.
C6_AddReturnsPreviousCount ==
    ret.op = "add_conversation"
        => /\ ret.result = Len(metadata) - 1
           /\ ret.result = ntotal(index) - 1
           /\ metadata[Len(metadata)].index_id = ret.result
           /\ index[ret.result + 1]
                = Encode(CombinedText(metadata[Len(metadata)].question,
                                      metadata[Len(metadata)].response))
           /\ ~removed => ret.result = adds - 1

\* C6 witness: the third add of a run without deletion returned 2.
C6_Witness ==
    /\ ret.op = "add_conversation"
    /\ ret.result = 2
    /\ ~removed
    /\ adds = 3

\* No two stored records carry the same index_id.
DistinctPositions ==
    \A i, j \in DOMAIN metadata :
        i # j => metadata[i].index_id # metadata[j].index_id

\* C7: a position is not reused after a deletion-triggered rebuild.
\* No add_conversation hands out a position that a record stored before it
\* carries, and no two stored records ever carry the same position.
C7_NeverReused ==
    /\ [][(ret'.op = "add_conversation" /\ Len(metadata') = Len(metadata) + 1)
              => \A i \in DOMAIN metadata :
                     metadata[i].index_id # ret'.result]_vars
    /\ []DistinctPositions

\* The distance of slot s from query q on the current store.
DistanceOf(q, s) == L2(index[s + 1], Encode(q))

\* Slot s is nearer to query q than slot t (a tie goes to the lower slot).
Nearer(q, s, t) ==
    \/ DistanceOf(q, s) < DistanceOf(q, t)
    \/ DistanceOf(q, s) = DistanceOf(q, t) /\ s < t

\* The slots among the min(2k, count) nearest to q.
Candidates(q, k) ==
    {s \in 0..(ntotal(index) - 1) :
        Cardinality({t \in 0..(ntotal(index) - 1) : Nearer(q, t, s)})
            < Min(2 * k, ntotal(index))}

\* The candidates that match the owner filter u (all of them for None).
Matching(q, u, k) ==
    {s \in Candidates(q, k) : u = None \/ metadata[s + 1].user_email = u}

\* C8: a search inspects only the min(2k, count) nearest vectors, keeps those
\* matching the owner filter and returns the first k of them in ascending
\* distance: at most k entries, fewer than k when fewer than k candidates
\* match, [] on an empty store.
C8_SearchOverFetch ==
    ret.op = "search_similar_conversations"
        => LET q == ret.query
               k == ret.k
               R == ret.result
               M == Matching(q, ret.user_email, k)
           IN  /\ Len(R) = Min(k, Cardinality(M))
               /\ Len(R) <= k
               /\ ntotal(index) = 0 => R = << >>
               /\ \A i \in DOMAIN R :
                     \E s \in M :
                        /\ Cardinality({t \in M : Nearer(q, t, s)}) = i - 1
                        /\ R[i] = Scored(metadata[s + 1], DistanceOf(q, s))
               /\ \A i, j \in DOMAIN R :
                     i < j => R[i].similarity_score.den
                                 <= R[j].similarity_score.den

\* C8 witness: a search with k = 1 filtered by an owner who has a record
\* returned nothing, because the two nearest vectors belong to the other
\* owner.
C8_Witness ==
    /\ ret.op = "search_similar_conversations"
    /\ ret.user_email = "a@farm"
    /\ ret.k = 1
    /\ ret.result = << >>
    /\ OwnedCount(metadata, "a@farm") >= 1

\* C9: save_index followed by load_index leaves the in-memory store (vectors
\* and ordered metadata) as it was before saving, so every search and every
\* context block is the same before and after, for every save_index call
\* that returned.
C9_ReloadRoundTrip ==
    [][(ret.op = "save_index" /\ ret'.op = "load_index")
          => /\ index' = index
             /\ metadata' = metadata
             /\ \A q \in Queries, u \in Users \cup {None}, k \in Ks :
                   /\ SearchSimilarConversations(index', metadata', q, u, k)
                        = SearchSimilarConversations(index, metadata, q, u, k)
                   /\ \A arith \in Arithmetics :
                         GetRelevantContext(index', metadata', q, u, k, arith)
                            = GetRelevantContext(index, metadata, q, u, k,
                                                 arith)]_vars

\* C10: whenever add_conversation has returned a position, the index file and
\* the metadata file hold the new record and equal the in-memory store.
C10_AddPersistsBeforeReturn ==
    ret.op = "add_conversation"
        => /\ index_file.state = "ok"
           /\ metadata_file.state = "ok"
           /\ ReadIndex(index_file) = index
           /\ PickleLoad(metadata_file) = metadata
           /\ Len(metadata_file.content) = ret.result + 1
           /\ PickleLoad(metadata_file)[ret.result + 1]
                = metadata[Len(metadata)]

\* C11: a failed write of the index file or of the metadata file is surfaced
\* to the caller: over every step in which add_conversation or
\* delete_user_conversations changes the store and returns normally, save_index
\* has written both files, so they hold the store the call leaves in memory.
C11_FailedSaveSurfaced ==
    [][(/\ ret'.op \in {"add_conversation", "delete_user_conversations"}
        /\ metadata' # metadata)
          => /\ index_file' = WriteIndex(index')
             /\ metadata_file' = PickleDump(metadata')]_vars

\* The store (idx, metas) is a pair one save can have written: one vector per
\* record, each the embedding of its record's text.
MatchedPair(idx, metas) ==
    /\ ntotal(idx) = Len(metas)
    /\ \A i \in DOMAIN metas :
          idx[i] = Encode(CombinedText(metas[i].question, metas[i].response))

\* C12: a crash inside save_index, between the write of the index file and
\* the write of the metadata file included, is detected by load_index: the
\* store the restarted process installs is a matched pair (possibly the empty
\* one), never the index of one save with the metadata list of another.
C12_CrashLeavesMatchedPair ==
    ret.op = "crash" => MatchedPair(index, metadata)

\* Both files exist and can be read.
BothReadable == index_file.state = "ok" /\ metadata_file.state = "ok"

\* The in-memory store is the empty one.
EmptyStore == ntotal(index) = 0 /\ metadata = << >>

\* C13: whenever load_index has run (called directly, by __init__ or by the
\* restart after a crash) with a file missing or unreadable, the store is
\* empty: index count 0 and empty metadata.
C13_LoadEndsEmpty ==
    (ret.op \in {"load_index", "__init__", "crash"} /\ ~BothReadable)
        => EmptyStore

\* C14: a retrieval failure never blocks the answer.  No send_message turn
\* ends with an error because get_relevant_context raised: the turn goes on
\* without retrieved context, calls the model and returns its response.
C14_RetrievalFailureNeverFailsTurn ==
    ~(reply.status = 500 /\ reply.failed_at = "get_relevant_context")

\* The request stands inside add_conversation or delete_user_conversations
\* (their save_index included): the call has started and has not returned.
InWriter(frame) ==
    frame.pc \in {"index.add", "metadata.append", "add: save_index",
                  "indices_to_keep", "reconstruct", "self.index =",
                  "self.metadata =", "delete: save_index"}

\* The request stands inside search_similar_conversations.
InSearch(frame) ==
    frame.pc \in {"index.search", "for distance, idx", "return results"}

\* C15: single-writer discipline.  No two requests are inside add_conversation
\* or delete_user_conversations (or the save_index they call) at the same
\* time, a request is inside one only while it holds the event loop, and
\* whenever no request is inside one the store is a matched pair: no append
\* took effect in the middle of a rebuild.
C15_SingleWriter ==
    /\ \A r, s \in TurnIds :
          (r # s /\ InWriter(frames[r])) => ~InWriter(frames[s])
    /\ \A r \in TurnIds : InWriter(frames[r]) => running = r
    /\ (\A r \in TurnIds : ~InWriter(frames[r]))
          => MatchedPair(index, metadata)

\* C15 witness: a request is in the middle of a rebuild (the new index is
\* installed, the metadata list is still the old one) while another request,
\* a send_message whose append is still to come, is suspended at chain.arun.
C15_Witness ==
    \E r, s \in TurnIds :
        /\ frames[r].pc = "self.metadata ="
        /\ ntotal(index) < Len(metadata)
        /\ ntotal(index) >= 1
        /\ frames[s].pc = "chain.arun"

\* C16: a search sees one version of the store.  While a search is between
\* index.search and its loop over the hits, no writer is inside a method, the
\* hits are those of the current index and the store is a matched pair; what
\* the search returns is the result on that store, and every returned record
\* is the one whose vector was matched (its score is that of its own text).
C16_ConsistentSnapshot ==
    \A r \in TurnIds :
        /\ InSearch(frames[r])
              => /\ \A s \in TurnIds : ~InWriter(frames[s])
                 /\ MatchedPair(index, metadata)
        /\ frames[r].pc = "for distance, idx"
              => frames[r].hits
                    = IndexSearch(index,
                                  create_embeddings(<<frames[r].query>>)[1],
                                  FetchCount(frames[r].k, ntotal(index)))
        /\ frames[r].pc = "return results"
              => /\ frames[r].results
                      = SearchSimilarConversations(index, metadata,
                                                   frames[r].query,
                                                   frames[r].user_email,
                                                   frames[r].k)
                 /\ \A i \in DOMAIN frames[r].results :
                       frames[r].results[i].similarity_score
                          = SimilarityScore(
                                L2(Encode(CombinedText(
                                       frames[r].results[i].question,
                                       frames[r].results[i].response)),
                                   Encode(frames[r].query)))

\* C16 witness: a search is about to return a record of a store that a
\* deletion rebuilt, while a send_message whose append is still to come is
\* suspended at chain.arun.
C16_Witness ==
    \E r, s \in TurnIds :
        /\ frames[r].pc = "return results"
        /\ Len(frames[r].results) >= 1
        /\ removed
        /\ frames[s].pc = "chain.arun"

\* The sum of the values of a function with a finite domain.
RECURSIVE SumOf(_)
SumOf(f) ==
    IF DOMAIN f = {}
    THEN 0
    ELSE LET x == CHOOSE y \in DOMAIN f : TRUE
         IN  f[x] + SumOf([y \in DOMAIN f \ {x} |-> f[y]])

\* C17: what get_stats returns in every reachable state, the store a restart
\* loads included.  conversations_per_user has an entry exactly
\* for the owners with a stored record, each entry is the number of the
\* owner's records, total_users is the number of those owners, and
\* total_conversations is the number of stored records, the sum of the
\* per-owner counts.
C17_StatsCountRecords ==
    ret.op = "get_stats"
        => LET stats == ret.result
               owners == {u \in Users : OwnedCount(metadata, u) >= 1}
           IN  /\ DOMAIN stats.conversations_per_user = owners
               /\ \A o \in owners :
                     stats.conversations_per_user[o] = OwnedCount(metadata, o)
               /\ stats.total_users = Cardinality(owners)
               /\ stats.total_conversations = Len(metadata)
               /\ stats.total_conversations
                     = SumOf(stats.conversations_per_user)

\* The position of the first line break of a text, 0 when it has none.
FirstBreak(s) ==
    IF \E i \in 1..Len(s) : SubSeq(s, i, i) = "\n"
    THEN CHOOSE i \in 1..Len(s) :
             /\ SubSeq(s, i, i) = "\n"
             /\ \A j \in 1..(i - 1) : SubSeq(s, j, j) # "\n"
    ELSE 0

\* The lines of a text.
RECURSIVE SplitLines(_)
SplitLines(s) ==
    IF FirstBreak(s) = 0
    THEN <<s>>
    ELSE <<SubSeq(s, 1, FirstBreak(s) - 1)>>
             \o SplitLines(SubSeq(s, FirstBreak(s) + 1, Len(s)))

\* The four lines of entry number i of a context block, for record convo.
EntryLines(i, convo, arith) ==
    <<"",
      ToString(i) \o ". Q: " \o convo.question \o "...",
      "   A: " \o convo.response \o "...",
      "   (Similarity: " \o FormatScore(convo.similarity_score, arith) \o ")">>

\* C18: get_relevant_context returns the sentinel exactly when the search
\* with k = max_results returns no record.  Otherwise the block is the header
\* followed by one entry per search result: entry i is numbered i and shows
\* the question, the response and the score of result i, so the entries are
\* numbered 1..n with n <= max_results, are all records of the owner, and come
\* in the order of the search result, by descending similarity.
C18_ContextRendersSearch ==
    ret.op = "get_relevant_context"
        => LET similar == SearchSimilarConversations(index, metadata,
                              ret.query, ret.user_email, ret.max_results)
               lines   == SplitLines(ret.result)
               n       == Len(similar)
           IN  /\ (ret.result = "No relevant past conversations found.")
                     <=> (n = 0)
               /\ n <= ret.max_results
               /\ n > 0 =>
                     /\ Len(lines) = 1 + 4 * n
                     /\ lines[1] = "Relevant past conversations:"
                     /\ \E arith \in Arithmetics :
                           \A i \in 1..n :
                               SubSeq(lines, 4 * i - 2, 4 * i + 1)
                                  = EntryLines(i, similar[i], arith)
                     /\ \A i \in 1..n :
                           similar[i].user_email = ret.user_email
                     /\ \A i, j \in 1..n :
                           i < j => similar[i].similarity_score.den
                                       <= similar[j].similarity_score.den

\* C18 witness: a context block with two entries of different scores, for an
\* owner who shares the store with a record of another owner.
C18_Witness ==
    /\ ret.op = "get_relevant_context"
    /\ ret.user_email = "a@farm"
    /\ ret.max_results = 2
    /\ Len(SplitLines(ret.result)) = 9
    /\ OwnedCount(metadata, "b@farm") = 1
    /\ index[1] # index[2]
    /\ index[2] # index[3]

\* The lines of a summary list exactly the m most recent records of the
\* owner: a header with the count m, then one line per record, for m
\* different records of the owner in descending timestamp order, none of them
\* older than a record of the owner that is left out.
ListsMostRecent(lines, owner, m) ==
    /\ Len(lines) = 1 + m
    /\ lines[1] = "Your recent conversation history (" \o ToString(m)
                      \o " conversations):"
    /\ \E f \in [1..m -> {p \in DOMAIN metadata :
                            metadata[p].user_email = owner}] :
          /\ \A i, j \in 1..m : i # j => f[i] # f[j]
          /\ \A i \in 1..m :
                lines[i + 1]
                   = "- Q: " \o metadata[f[i]].question \o "... (at "
                        \o SubSeq(IsoFormat(metadata[f[i]].timestamp), 1, 10)
                        \o ")"
          /\ \A i, j \in 1..m :
                i < j => metadata[f[i]].timestamp >= metadata[f[j]].timestamp
          /\ \A i \in 1..m, p \in DOMAIN metadata :
                (metadata[p].user_email = owner /\ \A j \in 1..m : f[j] # p)
                    => metadata[p].timestamp <= metadata[f[i]].timestamp

\* C19 as stated: for every limit, get_user_history_summary returns the
\* sentinel exactly when the owner has no record, and otherwise lists exactly
\* the min(limit, n) most recent of the owner's n records.
C19_SummaryForEveryLimit ==
    ret.op = "get_user_history_summary"
        => LET n == OwnedCount(metadata, ret.user_email)
           IN  /\ (ret.result = "No previous conversations found.") <=> (n = 0)
               /\ n > 0 => ListsMostRecent(SplitLines(ret.result),
                                           ret.user_email, Min(ret.limit, n))

\* C19 amended: for a limit of at least 1 the summary is the sentinel exactly
\* when the owner has no record and otherwise lists exactly the min(limit, n)
\* most recent of the owner's n records, in descending timestamp order and
\* with no record of another owner.  For limit = 0 the sentinel is returned
\* whatever the owner has stored, and for a negative limit the summary lists
\* the n + limit most recent records (the sentinel when there is none).
C19_SummaryForPositiveLimit ==
    ret.op = "get_user_history_summary"
        => LET n == OwnedCount(metadata, ret.user_email)
               m == IF ret.limit >= 1
                    THEN Min(ret.limit, n)
                    ELSE IF n + ret.limit > 0 /\ ret.limit < 0
                         THEN n + ret.limit
                         ELSE 0
           IN  /\ ret.limit >= 1
                     => ((ret.result = "No previous conversations found.")
                            <=> (n = 0))
               /\ (ret.result = "No previous conversations found.")
                     <=> (m = 0)
               /\ m > 0 => ListsMostRecent(SplitLines(ret.result),
                                           ret.user_email, m)

\* C19 witness: a summary with limit 1 for an owner who has two records with
\* different timestamps, in a store that also holds a record of another owner.
C19_Witness ==
    /\ ret.op = "get_user_history_summary"
    /\ ret.limit = 1
    /\ ret.result # "No previous conversations found."
    /\ OwnedCount(metadata, ret.user_email) = 2
    /\ Len(metadata) = 3
    /\ \E p, q \in DOMAIN metadata :
          /\ metadata[p].user_email = ret.user_email
          /\ metadata[q].user_email = ret.user_email
          /\ metadata[p].timestamp # metadata[q].timestamp

\* C20: in every chat turn the retrieval is made before the model is called,
\* on the store as it stands then and without writing to it, and the store is
\* written again only by the step that follows the model's answer, which
\* appends one record made of the turn's question and of that answer; the
\* context of a turn is therefore built from a store that does not hold the
\* turn's own exchange.
C20_RetrieveThenAnswerThenStore ==
    [][/\ \A t \in TurnIds :
            (turns[t].pc = "idle" /\ turns'[t].pc = "awaiting")
                => /\ \E arith \in Arithmetics :
                          turns'[t].rag_context =
                             GetRelevantContext(index, metadata,
                                                turns'[t].question,
                                                turns'[t].user_email,
                                                RagMaxResults, arith)
                   /\ turns'[t].prompt_context =
                          ContextStr(None, turns'[t].rag_context)
                   /\ index' = index
                   /\ metadata' = metadata
       /\ (metadata' # metadata \/ index' # index)
            => \E t \in TurnIds :
                  /\ turns[t].pc = "awaiting"
                  /\ turns'[t].pc = "idle"
                  /\ reply'.status = 200
                  /\ Len(metadata') = Len(metadata) + 1
                  /\ SubSeq(metadata', 1, Len(metadata)) = metadata
                  /\ ntotal(index') = ntotal(index) + 1
                  /\ LET meta == metadata'[Len(metadata')]
                     IN  /\ meta.user_email = turns[t].user_email
                         /\ meta.question = turns[t].question
                         /\ meta.response = reply'.response
                         /\ meta.index_id = reply'.vector_id
                         /\ meta.index_id = Len(metadata)
      ]_vars

\* C20 witness: a turn was answered and stored as the second record of the
\* store, for the same owner and the same question as the first record, while
\* another turn of that owner waits for the model with a context retrieved
\* from the store.
C20_Witness ==
    /\ reply.status = 200
    /\ reply.vector_id = 1
    /\ Len(metadata) = 2
    /\ metadata[2].user_email = metadata[1].user_email
    /\ metadata[2].question = metadata[1].question
    /\ \E t \in TurnIds :
          /\ turns[t].pc = "awaiting"
          /\ turns[t].user_email = metadata[2].user_email
          /\ turns[t].rag_context # "No relevant past conversations found."
          /\ turns[t].rag_context # ""

\* The owner, question, answer, conversation_id and timestamp of every record
\* of a metadata list, in slot order.
StoredContent(metas) ==
    [i \in DOMAIN metas |->
        <<metas[i].user_email, metas[i].question, metas[i].response,
          metas[i].conversation_id, metas[i].timestamp>>]

\* C21: a stored record is never mutated in place.  An add leaves every
\* record it found as it was and appends one; a delete for an owner leaves the
\* records of the other owners, in their order and with their content, and
\* nothing else; a search, a context retrieval, a summary, the statistics and
\* a save leave the metadata list as it was, a search returning copies that
\* carry the stored content and a similarity_score.
C21_NeverMutatedInPlace ==
    [][/\ ret'.op = "add_conversation"
            => /\ Len(metadata') = Len(metadata) + 1
               /\ SubSeq(metadata', 1, Len(metadata)) = metadata
       /\ ret'.op = "delete_user_conversations"
            => StoredContent(metadata') =
                  StoredContent(SelectSeq(metadata,
                      LAMBDA meta : meta.user_email # ret'.user_email))
       /\ ret'.op \in {"search_similar_conversations", "get_relevant_context",
                       "get_user_history_summary", "get_stats", "save_index"}
            => metadata' = metadata
       /\ ret'.op = "search_similar_conversations"
            => \A i \in DOMAIN ret'.result :
                  \E j \in DOMAIN metadata' :
                     /\ "similarity_score" \notin DOMAIN metadata'[j]
                     /\ DOMAIN ret'.result[i] =
                           DOMAIN metadata'[j] \cup {"similarity_score"}
                     /\ \A f \in DOMAIN metadata'[j] :
                           ret'.result[i][f] = metadata'[j][f]
      ]_vars

\* C21 witness: a delete for one owner removed a record and left a record of
\* another owner that had been created behind it, with the clock reading of
\* its creation.
C21_Witness ==
    /\ ret.op = "delete_user_conversations"
    /\ ret.result >= 1
    /\ Len(metadata) >= 1
    /\ metadata[1].index_id >= 1
    /\ metadata[1].timestamp = 2
    /\ metadata[1].user_email # ret.user_email

\* C22: with a clock that never goes back and one writer at a time, the
\* timestamps of the stored records are non-decreasing in slot order in every
\* reachable state, also after delete_user_conversations rebuilt the store.
C22_TimestampsNonDecreasing ==
    \A i, j \in DOMAIN metadata :
        i < j => metadata[i].timestamp <= metadata[j].timestamp

\* C22 witness: a delete removed a record that stood between two records of
\* another owner, which were created at different readings of the clock.
C22_Witness ==
    /\ ret.op = "delete_user_conversations"
    /\ ret.result >= 1
    /\ Len(metadata) = 2
    /\ metadata[1].timestamp < metadata[2].timestamp
    /\ metadata[2].index_id = 2
    /\ metadata[1].index_id = 0

\* 0 < score <= 1 for a score, a float64 number.
InUnitInterval(score) == score.hi >= Two26 /\ ~Float64Less(Float64One, score)

\* C23: the similarity score 1 / (1 + d) of every hit lies in (0, 1], and of
\* two hits the one with the smaller distance has the strictly larger score.
C23_ScoreStrictlyDecreasing ==
    ret.op = "similarity_score"
        => /\ \A i \in DOMAIN ret.scores : InUnitInterval(ret.scores[i])
           /\ Float32Less(ret.distances[1], ret.distances[2])
                 => Float64Less(ret.scores[2], ret.scores[1])

\* C23 amended: the similarity score of every hit lies in (0, 1], and of two
\* hits the one with the smaller distance has a score that is not smaller:
\* the sum and the quotient are rounded, so two different distances can get
\* the same score, and ascending distance is non-increasing score.
C23_ScoreNonIncreasing ==
    ret.op = "similarity_score"
        => /\ \A i \in DOMAIN ret.scores : InUnitInterval(ret.scores[i])
           /\ Float32Less(ret.distances[1], ret.distances[2])
                 => ~Float64Less(ret.scores[1], ret.scores[2])
           /\ ret.distances[1] = Float32Zero => ret.scores[1] = Float64One

\* C23 witness: two hits at different distances were given the same score,
\* below 1.
C23_Witness ==
    /\ ret.op = "similarity_score"
    /\ Float32Less(ret.distances[1], ret.distances[2])
    /\ ret.scores[1] = ret.scores[2]
    /\ Float64Less(ret.scores[1], Float64One)

\* C24: delete_user_conversations for an owner who has no stored record
\* returns 0 and changes nothing: the index and the metadata list in memory
\* are what they were and neither file of the snapshot is written (a store
\* that was never saved still has no file afterwards).
C24_DeleteOfNothing ==
    [][(/\ ret'.op = "delete_user_conversations"
        /\ OwnedCount(metadata, ret'.user_email) = 0)
          => /\ ret'.result = 0
             /\ ~ret'.raised
             /\ index' = index
             /\ metadata' = metadata
             /\ index_file' = index_file
             /\ metadata_file' = metadata_file
      ]_vars

\* C24 witness: a delete returned 0 for an owner without a record while the
\* store held two records of another owner.
C24_Witness ==
    /\ ret.op = "delete_user_conversations"
    /\ ret.result = 0
    /\ ~ret.raised
    /\ Len(metadata) = 2
    /\ OwnedCount(metadata, ret.user_email) = 0

\* C25: after a successful send_message the vector-store entry of the
\* exchange carries, as conversation_id, the id of the Conversation row
\* committed for that turn.
C25_EntryLinkedToRow ==
    reply.status = 200
        => /\ reply.vector_id + 1 \in DOMAIN metadata
           /\ Len(conversations) >= 1
           /\ metadata[reply.vector_id + 1].conversation_id =
                 conversations[Len(conversations)].id

\* C27: add_conversation is all-or-nothing for a failing embedding or a
\* failing index.add: the exception reaches the caller and the index in
\* memory, the metadata list and both files of the snapshot are what they
\* were before the call.
C27_RaisingAddChangesNothing ==
    [][(ret'.op = "add_conversation" /\ "raised" \in DOMAIN ret')
          => /\ ret'.raised
             /\ ret'.failed_at \in AddFailures
             /\ index' = index
             /\ metadata' = metadata
             /\ index_file' = index_file
             /\ metadata_file' = metadata_file
             /\ ntotal(index') = Len(metadata')
      ]_vars

\* C27 witness: index.add raised in an add made on a store that holds two
\* records, saved in both files.
C27_Witness ==
    /\ ret.op = "add_conversation"
    /\ "raised" \in DOMAIN ret
    /\ ret.failed_at = "index.add"
    /\ Len(metadata) = 2
    /\ ntotal(index) = 2
    /\ index_file = WriteIndex(index)
    /\ metadata_file = PickleDump(metadata)

\* The conversation_id of the calls of a list that returned, in order.
RECURSIVE ReturnedIds(_)
ReturnedIds(calls) ==
    IF Len(calls) = 0
    THEN << >>
    ELSE IF calls[1].raised
         THEN ReturnedIds(Tail(calls))
         ELSE <<calls[1].conversation_id>> \o ReturnedIds(Tail(calls))

\* C26: migrate_conversations calls add_conversation exactly once for every
\* Conversation row, in order, with the row's id as conversation_id; a row
\* whose add raises is counted as an error and the loop goes on; when the
\* script has finished, success_count + error_count is the number of rows and
\* the store holds success_count more records than at the start, which are
\* the records of the rows whose add returned.
C26_MigrationCountsEveryRow ==
    LET f == frames[1]
    IN  /\ f.pc = "for convo in conversations"
              => f.success_count + f.error_count = f.i - 1
        /\ f.pc = "Migration complete"
              => /\ Len(f.calls) = Len(conversations)
                 /\ \A i \in DOMAIN conversations :
                       f.calls[i].conversation_id = conversations[i].id
                 /\ f.success_count + f.error_count = Len(conversations)
                 /\ f.success_count = Len(ReturnedIds(f.calls))
                 /\ ntotal(index) = f.ntotal_before + f.success_count
                 /\ Len(metadata) = f.metadata_before + f.success_count
                 /\ ReturnedIds(f.calls) =
                       [j \in 1..f.success_count |->
                           metadata[f.metadata_before + j].conversation_id]

\* C26 witness: the script finished on a table of two rows whose ids start
\* at 2 and a store that held one record; the add of the first row raised and
\* the add of the second returned.
C26_Witness ==
    /\ frames[1].pc = "Migration complete"
    /\ frames[1].metadata_before = 1
    /\ Len(conversations) = 2
    /\ conversations[1].id = 2
    /\ frames[1].calls[1].raised
    /\ ~frames[1].calls[2].raised
    /\ frames[1].error_count = 1

\* C28: two send_message turns that interleave at the await of the model are
\* both stored.  Whenever a turn is answered, also while another turn that
\* made its retrieval on the same store still waits for the model, its
\* exchange is appended as one record at the position add_conversation
\* returns, which no stored record occupies; the index grows with the
\* metadata list; and the waiting turn keeps its slot, its question and its
\* context, so that its own append follows in the same way.
C28_InterleavedTurnsBothStored ==
    [][\A t \in TurnIds :
          (/\ turns[t].pc = "awaiting"
           /\ turns'[t].pc = "idle"
           /\ reply'.status = 200)
             => /\ metadata' =
                      Append(metadata,
                             Metadata(turns[t].user_email, turns[t].question,
                                      reply'.response, NoId, now',
                                      Len(metadata)))
                /\ ntotal(index') = ntotal(index) + 1
                /\ ntotal(index') = Len(metadata')
                /\ reply'.vector_id = Len(metadata)
                /\ \A i \in DOMAIN metadata :
                      metadata[i].index_id < reply'.vector_id
                /\ \A s \in TurnIds \ {t} : turns'[s] = turns[s]
      ]_vars

\* C28 witness: a turn was answered and stored at position 0 while another
\* turn of the same owner waits for the model with the context it retrieved
\* from the store when it was still empty.
C28_Witness ==
    /\ reply.status = 200
    /\ reply.vector_id = 0
    /\ Len(metadata) = 1
    /\ \E s \in TurnIds :
          /\ turns[s].pc = "awaiting"
          /\ turns[s].user_email = metadata[1].user_email
          /\ turns[s].rag_context = "No relevant past conversations found."

\* The record of the exchange a request holds at db.commit is stored, in
\* memory and in the saved files, at the position add_conversation returned.
StoredForFrame(frame) ==
    /\ frame.vector_id + 1 \in DOMAIN metadata
    /\ frame.vector_id < ntotal(index)
    /\ metadata[frame.vector_id + 1].user_email = frame.user_email
    /\ metadata[frame.vector_id + 1].question = frame.question
    /\ metadata[frame.vector_id + 1].response = frame.response
    /\ metadata_file.state = "ok"
    /\ frame.vector_id + 1 \in DOMAIN metadata_file.content

\* C29: a chat turn whose call of the model fails changes neither store: no
\* statement of the turn, from its retrieval to the failure, writes the
\* vector store (memory or files) or a Conversation row, and the turn ends
\* with status 500; and a row is only committed by a turn whose exchange is
\* already stored in the vector store.
C29_FailedTurnWritesNothing ==
    [][/\ \A r \in TurnIds :
            (/\ running' \in {0, r}
             /\ frames[r].pc \in {"get_relevant_context", "chain.arun"}
             /\ frames'[r].pc \in {"chain.arun", "idle"}
             /\ frames'[r] # frames[r])
               => /\ index' = index
                  /\ metadata' = metadata
                  /\ index_file' = index_file
                  /\ metadata_file' = metadata_file
                  /\ conversations' = conversations
                  /\ frames'[r].pc = "idle"
                        => /\ reply'.status = 500
                           /\ reply'.failed_at = "chain.arun"
       /\ conversations' # conversations
            => \E r \in TurnIds :
                  /\ frames[r].pc = "db.commit"
                  /\ frames'[r].pc = "idle"
                  /\ StoredForFrame(frames[r])
                  /\ metadata' = metadata
                  /\ index' = index
                  /\ reply'.status = 200
                  /\ conversations' =
                        Append(conversations,
                               ConversationRow(NextRowId(conversations),
                                               frames[r].user_email,
                                               frames[r].question,
                                               frames[r].response, None))
      ]_vars

\* C29 witness: the model failed in one turn, which was answered 500, and
\* another turn has since stored its exchange and stands before its commit:
\* the store holds one record more than the table has rows.
C29_Witness ==
    /\ reply.status = 500
    /\ reply.failed_at = "chain.arun"
    /\ \E r \in TurnIds : frames[r].pc = "db.commit"
    /\ Len(metadata) = Len(conversations) + 1
    /\ Len(conversations) >= 1

\* C30: deleting a Conversation row (DELETE /api/chat/history/{id}) leaves
\* the vector store as it was: the index, every record and both files are the
\* same before and after, so every search and every context retrieval gives
\* what it gave before the row was deleted; the record of the exchange stays
\* until delete_user_conversations is called for its owner.
C30_RowDeleteKeepsVectorStore ==
    [][Len(conversations') < Len(conversations)
          => /\ ret'.op = "delete_conversation"
             /\ ret'.status = 200
             /\ \E i \in DOMAIN conversations :
                   conversations' = WithoutRow(conversations, conversations[i].id)
             /\ index' = index
             /\ metadata' = metadata
             /\ index_file' = index_file
             /\ metadata_file' = metadata_file
             /\ \A q \in Queries, u \in Users, k \in Ks :
                   /\ SearchSimilarConversations(index', metadata', q, u, k) =
                         SearchSimilarConversations(index, metadata, q, u, k)
                   /\ \A arith \in Arithmetics :
                         GetRelevantContext(index', metadata', q, u, k, arith)
                            = GetRelevantContext(index, metadata, q, u, k,
                                                 arith)
      ]_vars

\* C30 witness: every row of the table has been deleted, no record was
\* removed from the vector store, and a search of an owner returned the
\* exchange of a deleted row.
C30_Witness ==
    /\ ret.op = "search_similar_conversations"
    /\ Len(ret.result) >= 1
    /\ conversations = << >>
    /\ ~removed
    /\ Len(metadata) = 2
    /\ metadata_file.state = "ok"
    /\ Len(metadata_file.content) = 2

====
